---- MODULE Spec2Model ----
(***************************************************************************)
(* WikiScrolls backend: the interaction store and its denormalized         *)
(* counters, the article catalogue (upsert from Wikipedia) and the audio   *)
(* regeneration path, as a state machine over the database tables and the  *)
(* requests in flight.  Every await of a service method is one step of a   *)
(* request, so that requests interleave where the Node event loop lets     *)
(* them interleave.                                                        *)
(***************************************************************************)
EXTENDS Integers, FiniteSets, Sequences, TLC

\* ------------------------------------------------------------------ sets
Users == {"u1", "u2"}
ArticleIds == {"a1", "a2"}
InteractionType == {"LIKE", "VIEW", "SAVE"}
Reqs == {"r1", "r2"}
WikipediaIds == {"w1", "w2"}
WikipediaUrls == {"url1", "url2"}

\* Cap on viewCount increments through POST /articles/:id/view.
MaxViews == 2
\* Cap on the number of speech syntheses started per article.
MaxTts == 3
\* Longest articleIds list a feed request carries.
MaxFeedLen == 2
\* Most items in the body of POST /articles/upsert-batch.
MaxBatch == 2

VARIABLES
    article,          \* table Article: id -> row (exists = FALSE: no such row)
    userInteraction,  \* table UserInteraction: (userId, articleId, type) -> number of rows
    cloudinary,       \* object storage: the public ids of the audio objects stored
    ttsCalls,         \* per article: calls of ttsService.generateAudioSummary so far
    feed,             \* table Feed: userId -> row (exists = FALSE: no such row)
    gorse,            \* the recommender: the calls of upsertItem per page id, the feedback held
    detached,         \* per article: the audio generation started and not awaited
    req               \* the requests in flight and their responses

vars == <<article, userInteraction, cloudinary, ttsCalls, feed, gorse, detached, req>>

\* ------------------------------------------------------------- the rows
\* A null audioUrl; a URL is the sequence of the parts deleteAudio reads.
NullUrl == <<>>

NoArticle ==
    [exists |-> FALSE, wikipediaId |-> "null", wikipediaUrl |-> "null",
     audioUrl |-> NullUrl, viewCount |-> 0, likeCount |-> 0, saveCount |-> 0,
     aiSummary |-> "null", tags |-> <<>>, isProcessed |-> FALSE, deleted |-> FALSE]

NewArticle(wid, url) ==
    [exists |-> TRUE, wikipediaId |-> wid, wikipediaUrl |-> url,
     audioUrl |-> NullUrl, viewCount |-> 0, likeCount |-> 0, saveCount |-> 0,
     aiSummary |-> "null", tags |-> <<>>, isProcessed |-> FALSE, deleted |-> FALSE]

\* A row that was deleted: its id is not given to another row.
DeletedArticle == [NoArticle EXCEPT !.deleted = TRUE]

\* The recommender before any call reached it.
\* The speech synthesis that processAndCreateArticle leaves running for an
\* article: not started.
NoTask == [pc |-> "none", error |-> "-"]

NoGorse == [items |-> [w \in WikipediaIds |-> 0], feedback |-> {}]

\* No Feed row for a user, and the row prisma.feed.create makes.
NoFeed == [exists |-> FALSE, articleIds |-> <<>>, currentPosition |-> 0]

NewFeed(ids) == [exists |-> TRUE, articleIds |-> ids, currentPosition |-> 0]

\* The data of a feed update: articleIds?, currentPosition?
NoData ==
    [hasArticleIds |-> FALSE, articleIds |-> <<>>,
     hasCurrentPosition |-> FALSE, currentPosition |-> 0]

\* A request body of PUT /articles/:id with none of the fields modelled.
NoBody ==
    [hasWikipediaUrl |-> FALSE, wikipediaUrl |-> "null",
     hasLikeCount |-> FALSE, likeCount |-> 0]

\* const results = { created: 0, existing: 0, articles: [] }
NoResults == [created |-> 0, existing |-> 0, articles |-> <<>>]

IdleReq ==
    [op |-> "none", pc |-> "idle", userId |-> "-", articleId |-> "-",
     interactionType |-> "-", wikipediaId |-> "-", wikipediaUrl |-> "-",
     existing |-> "-", base |-> 0, peers |-> {}, status |-> 0,
     created |-> FALSE, result |-> "-", audioUrl |-> NullUrl,
     newAudioUrl |-> NullUrl, tts |-> FALSE,
     after |-> {},
     requestingUserId |-> "-", isAdmin |-> FALSE, data |-> NoData,
     articles |-> <<>>, index |-> 0, results |-> NoResults,
     failed |-> 0, inserted |-> 0, body |-> NoBody,
     outcome |-> "-", threw |-> FALSE, synced |-> FALSE,
     recommendations |-> <<>>,
     ai |-> FALSE, summary |-> "null", tags |-> <<>>, row |-> NoArticle]

Key(u, a, k) == <<u, a, k>>

\* ------------------------------------------------------ error handling
\* statusCode of the AppError subclasses.
statusCode(err) ==
    CASE err = "NotFoundError" -> 404
      [] err = "BadRequestError" -> 400
      [] err = "ForbiddenError" -> 403
      [] err = "ConflictError" -> 409
      [] OTHER -> 500

\* errorHandler: the HTTP status a thrown error is answered with.
errorHandler_AppErrorOnly(err) == statusCode(err)

errorHandler(err) ==
    CASE err \in {"NotFoundError", "BadRequestError", "ForbiddenError",
                   "ConflictError"} -> statusCode(err)
      [] err = "P2002" -> 409
      [] err = "P2025" -> 404
      [] err = "P2003" -> 400
      [] OTHER -> 500

\* A request answers: its status is recorded, the other fields are kept.
Respond(r, status) == [req[r] EXCEPT !.pc = "done", !.status = status]

\* ------------------------------------------------- UserInteraction table
\* The unique index UserInteraction_userId_articleId_interactionType_key.
UniqueViolation_None(u, a, k) == FALSE

UniqueViolation(u, a, k) == userInteraction[Key(u, a, k)] > 0

\* prisma.userInteraction.delete: the record to delete must exist (else P2025).
RecordToDeleteMissing_Never(u, a, k) == FALSE

RecordToDeleteMissing(u, a, k) == userInteraction[Key(u, a, k)] = 0

\* prisma.article.update of createInteraction: the counter matching the type.
IncrementCount_All(row, k) ==
    [row EXCEPT !.viewCount = @ + 1, !.likeCount = @ + 1, !.saveCount = @ + 1]

IncrementCount(row, k) ==
    CASE k = "VIEW" -> [row EXCEPT !.viewCount = @ + 1]
      [] k = "LIKE" -> [row EXCEPT !.likeCount = @ + 1]
      [] k = "SAVE" -> [row EXCEPT !.saveCount = @ + 1]

\* prisma.article.update of deleteInteraction: LIKE and SAVE only.
DecrementCount_Keep(row, k) == row

DecrementCount(row, k) ==
    CASE k = "LIKE" -> [row EXCEPT !.likeCount = @ - 1]
      [] k = "SAVE" -> [row EXCEPT !.saveCount = @ - 1]
      [] OTHER -> row

\* The counter of an article row that belongs to an interaction type.
Counter(row, k) ==
    CASE k = "VIEW" -> row.viewCount
      [] k = "LIKE" -> row.likeCount
      [] k = "SAVE" -> row.saveCount

RECURSIVE SumRows(_, _, _)
SumRows(S, a, k) ==
    IF S = {} THEN 0
    ELSE LET u == CHOOSE x \in S : TRUE
         IN userInteraction[Key(u, a, k)] + SumRows(S \ {u}, a, k)

\* count(UserInteraction where articleId = a and interactionType = k)
CountRows(a, k) == SumRows(Users, a, k)

\* ------------------------------------------------------ createInteraction
\* The controller calls the service with the authenticated user and the body.
createInteraction(r, u, a, k) ==
    /\ req[r].pc = "idle"
    /\ req' = [req EXCEPT ![r] = [IdleReq EXCEPT
                  !.op = "createInteraction", !.pc = "ci_article",
                  !.userId = u, !.articleId = a, !.interactionType = k]]
    /\ UNCHANGED <<article, userInteraction, cloudinary, ttsCalls, feed, gorse, detached>>

\* await prisma.article.findUnique; NotFoundError when there is none.
ciFindArticle(r) ==
    /\ req[r].pc = "ci_article"
    /\ req' = [req EXCEPT ![r] =
                  IF ~article[req[r].articleId].exists
                  THEN Respond(r, errorHandler("NotFoundError"))
                  ELSE IF req[r].interactionType # "VIEW"
                       THEN [req[r] EXCEPT !.pc = "ci_existing"]
                       ELSE [req[r] EXCEPT !.pc = "ci_tx", !.existing = "skipped"]]
    /\ UNCHANGED <<article, userInteraction, cloudinary, ttsCalls, feed, gorse, detached>>

\* await prisma.userInteraction.findUnique (LIKE and SAVE); BadRequestError
\* when the row is there.
ciFindExisting(r) ==
    /\ req[r].pc = "ci_existing"
    /\ LET u == req[r].userId
           a == req[r].articleId
           k == req[r].interactionType
           found == userInteraction[Key(u, a, k)] > 0
           \* the calls for the same row that passed this check and wait to commit
           racing == {s \in Reqs \ {r} :
                         /\ req[s].op = "createInteraction" /\ req[s].pc = "ci_tx"
                         /\ req[s].userId = u /\ req[s].articleId = a
                         /\ req[s].interactionType = k}
       IN req' = [req EXCEPT ![r] =
                     IF found
                     THEN [Respond(r, errorHandler("BadRequestError"))
                              EXCEPT !.existing = "found"]
                     ELSE [req[r] EXCEPT !.pc = "ci_tx", !.existing = "none",
                                         !.peers = racing,
                                         !.base = Counter(article[a], k)]]
    /\ UNCHANGED <<article, userInteraction, cloudinary, ttsCalls, feed, gorse, detached>>

\* await prisma.$transaction([userInteraction.create, article.update]):
\* both writes commit, or the transaction throws and neither does.
ciTransaction(r) ==
    /\ req[r].pc = "ci_tx"
    /\ LET u == req[r].userId
           a == req[r].articleId
           k == req[r].interactionType
       IN IF UniqueViolation(u, a, k)
          THEN /\ req' = [req EXCEPT ![r] = Respond(r, errorHandler("P2002"))]
               /\ UNCHANGED <<article, userInteraction>>
          ELSE IF ~article[a].exists
          THEN /\ req' = [req EXCEPT ![r] = Respond(r, errorHandler("P2003"))]
               /\ UNCHANGED <<article, userInteraction>>
          ELSE /\ userInteraction' = [userInteraction EXCEPT ![Key(u, a, k)] = @ + 1]
               /\ article' = [article EXCEPT ![a] = IncrementCount(@, k)]
               /\ req' = [req EXCEPT ![r] = Respond(r, 201)]
    /\ UNCHANGED <<cloudinary, ttsCalls, feed, gorse, detached>>

\* ------------------------------------------------------ deleteInteraction
\* if (interactionType === 'VIEW') throw new BadRequestError(...)
IsViewDeletion_Never(k) == FALSE

IsViewDeletion(k) == k = "VIEW"

\* VIEW is refused before anything is read.
deleteInteraction(r, u, a, k) ==
    /\ req[r].pc = "idle"
    /\ LET call == [IdleReq EXCEPT
                       !.op = "deleteInteraction", !.pc = "di_existing",
                       !.userId = u, !.articleId = a, !.interactionType = k]
       IN req' = [req EXCEPT ![r] =
                     IF IsViewDeletion(k)
                     THEN [call EXCEPT !.pc = "done",
                                       !.status = errorHandler("BadRequestError")]
                     ELSE call]
    /\ UNCHANGED <<article, userInteraction, cloudinary, ttsCalls, feed, gorse, detached>>

\* validateDeleteInteraction: body('interactionType').isIn(['LIKE', 'SAVE'])
validateDeleteInteraction(k) == k \in {"LIKE", "SAVE"}

\* DELETE /interactions: handleValidationErrors answers 400 when the
\* validation failed, else the controller calls the service.
routeDeleteInteraction(r, u, a, k) ==
    IF validateDeleteInteraction(k)
    THEN deleteInteraction(r, u, a, k)
    ELSE /\ req[r].pc = "idle"
         /\ req' = [req EXCEPT ![r] = [IdleReq EXCEPT
                       !.op = "deleteInteraction", !.pc = "done", !.status = 400,
                       !.userId = u, !.articleId = a, !.interactionType = k]]
         /\ UNCHANGED <<article, userInteraction, cloudinary, ttsCalls, feed, gorse, detached>>

\* await prisma.userInteraction.findUnique; NotFoundError when there is none.
diFindExisting(r) ==
    /\ req[r].pc = "di_existing"
    /\ LET u == req[r].userId
           a == req[r].articleId
           k == req[r].interactionType
           found == userInteraction[Key(u, a, k)] > 0
           \* the calls for the same row that found it and wait to commit
           racing == {s \in Reqs \ {r} :
                         /\ req[s].op = "deleteInteraction" /\ req[s].pc = "di_tx"
                         /\ req[s].userId = u /\ req[s].articleId = a
                         /\ req[s].interactionType = k}
       IN req' = [req EXCEPT ![r] =
                     IF found
                     THEN [req[r] EXCEPT !.pc = "di_tx", !.existing = "found",
                                         !.peers = racing,
                                         !.base = Counter(article[a], k)]
                     ELSE [Respond(r, errorHandler("NotFoundError"))
                              EXCEPT !.existing = "none"]]
    /\ UNCHANGED <<article, userInteraction, cloudinary, ttsCalls, feed, gorse, detached>>

\* await prisma.$transaction([userInteraction.delete, article.update]).
diTransaction(r) ==
    /\ req[r].pc = "di_tx"
    /\ LET u == req[r].userId
           a == req[r].articleId
           k == req[r].interactionType
       IN IF RecordToDeleteMissing(u, a, k)
          THEN /\ req' = [req EXCEPT ![r] = Respond(r, errorHandler("P2025"))]
               /\ UNCHANGED <<article, userInteraction>>
          ELSE /\ userInteraction' = [userInteraction EXCEPT ![Key(u, a, k)] =
                                         IF @ > 0 THEN @ - 1 ELSE 0]
               /\ article' = [article EXCEPT ![a] = DecrementCount(@, k)]
               /\ req' = [req EXCEPT ![r] = Respond(r, 204)]
    /\ UNCHANGED <<cloudinary, ttsCalls, feed, gorse, detached>>

\* The response has been sent; the slot serves the next request.
Finish(r) ==
    /\ req[r].pc = "done"
    /\ req' = [s \in Reqs |->
                  IF s = r THEN IdleReq
                  ELSE [req[s] EXCEPT !.after = @ \ {r}, !.peers = @ \ {r}]]
    /\ UNCHANGED <<article, userInteraction, cloudinary, ttsCalls, feed, gorse, detached>>

\* ------------------------------------------------------- specifications
\* The database after the migration, with one article in the catalogue.
InitSeeded ==
    /\ article = [a \in ArticleIds |->
                     IF a = "a1" THEN NewArticle("w1", "url1") ELSE NoArticle]
    /\ userInteraction = [key \in Users \X ArticleIds \X InteractionType |-> 0]
    /\ cloudinary = {}
    /\ ttsCalls = [a \in ArticleIds |-> 0]
    /\ feed = [u \in Users |-> NoFeed]
    /\ gorse = NoGorse
    /\ detached = [a \in ArticleIds |-> NoTask]
    /\ req = [r \in Reqs |-> IdleReq]

NextInteraction ==
    \E r \in Reqs :
        \/ \E u \in Users, a \in ArticleIds, k \in InteractionType :
               createInteraction(r, u, a, k)
        \/ ciFindArticle(r)
        \/ ciFindExisting(r)
        \/ ciTransaction(r)
        \/ \E u \in Users, a \in ArticleIds, k \in InteractionType :
               deleteInteraction(r, u, a, k)
        \/ \E u \in Users, a \in ArticleIds, k \in InteractionType :
               routeDeleteInteraction(r, u, a, k)
        \/ diFindExisting(r)
        \/ diTransaction(r)
        \/ Finish(r)

SpecInteraction == InitSeeded /\ [][NextInteraction]_vars

\* The likes and saves of one user, created and deleted.
NextLikeSave ==
    \E r \in Reqs :
        \/ \E a \in ArticleIds, k \in {"LIKE", "SAVE"} :
               createInteraction(r, "u1", a, k)
        \/ ciFindArticle(r)
        \/ ciFindExisting(r)
        \/ ciTransaction(r)
        \/ \E a \in ArticleIds, k \in {"LIKE", "SAVE"} :
               deleteInteraction(r, "u1", a, k)
        \/ diFindExisting(r)
        \/ diTransaction(r)
        \/ Finish(r)

SpecLikeSave == InitSeeded /\ [][NextLikeSave]_vars

\* The interactions of one user with the seeded article, every call running
\* to its end: a call that can take a step takes it.
NextSync ==
    \E r \in Reqs :
        \/ \E k \in InteractionType : createInteraction(r, "u1", "a1", k)
        \/ ciFindArticle(r)
        \/ ciFindExisting(r)
        \/ ciTransaction(r)
        \/ \E k \in InteractionType : deleteInteraction(r, "u1", "a1", k)
        \/ diFindExisting(r)
        \/ diTransaction(r)
        \/ Finish(r)

\* Two articles in the catalogue.
InitFrame ==
    /\ article = [a \in ArticleIds |->
                     IF a = "a1" THEN NewArticle("w1", "url1")
                     ELSE NewArticle("w2", "url2")]
    /\ userInteraction = [key \in Users \X ArticleIds \X InteractionType |-> 0]
    /\ cloudinary = {}
    /\ ttsCalls = [a \in ArticleIds |-> 0]
    /\ feed = [u \in Users |-> NoFeed]
    /\ gorse = NoGorse
    /\ detached = [a \in ArticleIds |-> NoTask]
    /\ req = [r \in Reqs |-> IdleReq]

\* The interactions called: those of u1 with a1, and one of another user,
\* one with another article.
FrameCalls ==
    {<<"u1", "a1", "LIKE">>, <<"u1", "a1", "SAVE">>, <<"u1", "a1", "VIEW">>,
     <<"u2", "a1", "LIKE">>, <<"u1", "a2", "SAVE">>}

NextFrame ==
    \E r \in Reqs :
        \/ \E c \in FrameCalls : createInteraction(r, c[1], c[2], c[3])
        \/ ciFindArticle(r)
        \/ ciFindExisting(r)
        \/ ciTransaction(r)
        \/ \E c \in FrameCalls : deleteInteraction(r, c[1], c[2], c[3])
        \/ diFindExisting(r)
        \/ diTransaction(r)
        \/ Finish(r)

SpecFrame == InitFrame /\ [][NextFrame]_vars

SpecSync == InitSeeded /\ [][NextSync]_vars /\ WF_vars(NextSync)

\* --------------------------------------------------- incrementViewCount
\* POST /articles/:id/view: the controller calls the service with the id.
incrementViewCount(r, a) ==
    /\ req[r].pc = "idle"
    /\ req' = [req EXCEPT ![r] = [IdleReq EXCEPT
                  !.op = "incrementViewCount", !.pc = "iv_update", !.articleId = a]]
    /\ UNCHANGED <<article, userInteraction, cloudinary, ttsCalls, feed, gorse, detached>>

\* await prisma.article.update({ viewCount: { increment: 1 } }); P2025 when
\* there is no such article.
ivUpdate(r) ==
    /\ req[r].pc = "iv_update"
    /\ LET a == req[r].articleId
       IN IF ~article[a].exists
          THEN /\ req' = [req EXCEPT ![r] = Respond(r, errorHandler("P2025"))]
               /\ UNCHANGED article
          ELSE /\ article[a].viewCount < MaxViews
               /\ article' = [article EXCEPT ![a].viewCount = @ + 1]
               /\ req' = [req EXCEPT ![r] = Respond(r, 200)]
    /\ UNCHANGED <<userInteraction, cloudinary, ttsCalls, feed, gorse, detached>>

\* createInteraction(VIEW) calls and view-count increments only.
NextView ==
    \E r \in Reqs :
        \/ \E u \in Users, a \in ArticleIds : createInteraction(r, u, a, "VIEW")
        \/ ciFindArticle(r)
        \/ ciTransaction(r)
        \/ \E a \in ArticleIds : incrementViewCount(r, a)
        \/ ivUpdate(r)
        \/ Finish(r)

SpecView == InitSeeded /\ [][NextView]_vars

\* -------------------------------------------------------- Article table
\* The unique index Article_wikipediaUrl_key, and the unique wikipediaId that
\* findUnique({ where: { wikipediaId } }) relies on (nulls do not collide): a
\* create that repeats a value fails with P2002.
ArticleUniqueViolation_None(wid, url) == FALSE

ArticleUniqueViolation(wid, url) ==
    \E a \in ArticleIds :
        /\ article[a].exists
        /\ \/ article[a].wikipediaUrl = url
           \/ (wid # "null" /\ article[a].wikipediaId = wid)

\* where: { OR: [{ wikipediaId: data.id }, { wikipediaUrl: data.wikipediaUrl }] }
FindFirstMatches_None(wid, url) == {}

FindFirstMatches(wid, url) ==
    {a \in ArticleIds :
        /\ article[a].exists
        /\ (article[a].wikipediaId = wid \/ article[a].wikipediaUrl = url)}

\* The ids the database can give to a new row (a fresh UUID).
FreshIds == {a \in ArticleIds : ~article[a].exists /\ ~article[a].deleted}

\* ------------------------------------------------------------ GorseService
\* What a call of the recommender meets: the integration is disabled (no
\* GORSE_URL), fetch rejects, the response is not OK, the response is OK and
\* its body is JSON, or the response is OK and response.json() throws.
GorseOutcomes == {"disabled", "network_error", "not_ok", "ok", "bad_json"}

\* GorseService.request: null when disabled, on a response that is not OK
\* and on anything thrown inside the try block; the data otherwise.
request_NoCatch(outcome) ==
    [threw |-> outcome \in {"network_error", "bad_json"},
     value |-> IF outcome = "ok" THEN "data" ELSE "null"]

request(outcome) ==
    [threw |-> FALSE,
     value |-> IF outcome = "ok" THEN "data" ELSE "null"]

\* const feedbackTypeMap = { LIKE: 'like', VIEW: 'open_article', SAVE: 'save' }
feedbackTypeMap(k) ==
    CASE k = "LIKE" -> "like"
      [] k = "VIEW" -> "open_article"
      [] k = "SAVE" -> "save"

\* insertFeedback: result !== null ? true : false
insertFeedback(outcome) ==
    LET result == request(outcome)
    IN [threw |-> result.threw, value |-> ~result.threw /\ result.value # "null"]

\* deleteFeedback: result !== null ? true : false
deleteFeedback(outcome) ==
    LET result == request(outcome)
    IN [threw |-> result.threw, value |-> ~result.threw /\ result.value # "null"]

\* upsertItem: result !== null ? true : false
upsertItem(outcome) ==
    LET result == request(outcome)
    IN [threw |-> result.threw, value |-> ~result.threw /\ result.value # "null"]

\* getRecommendations: result || []
getRecommendations(outcome, ids) ==
    LET result == request(outcome)
    IN [threw |-> result.threw,
        value |-> IF result.threw \/ result.value = "null" THEN <<>> ELSE ids]

\* The recommender after a call of upsertItem(wikipediaId, title) was made.
GorseUpsertItem_Skip(g, wid) == g

GorseUpsertItem(g, wid) == [g EXCEPT !.items[wid] = @ + 1]

\* The recommender after POST /api/feedback and after DELETE /api/feedback/...
\* reached it and were accepted.
GorseInsertFeedback(g, u, wid, k, outcome) ==
    IF outcome = "ok"
    THEN [g EXCEPT !.feedback = @ \cup {<<feedbackTypeMap(k), u, wid>>}]
    ELSE g

GorseDeleteFeedback(g, u, wid, k, outcome) ==
    IF outcome = "ok"
    THEN [g EXCEPT !.feedback = @ \ {<<feedbackTypeMap(k), u, wid>>}]
    ELSE g

\* A call of an adapter operation by itself: the slot holds what came back.
AdapterCall(op, u, wid, k, outcome, res) ==
    [IdleReq EXCEPT !.op = op, !.pc = "done", !.userId = u,
                    !.wikipediaId = wid, !.interactionType = k,
                    !.outcome = outcome, !.threw = res.threw]

gsInsertFeedback(r, u, wid, k, outcome) ==
    /\ req[r].pc = "idle"
    /\ LET res == insertFeedback(outcome)
       IN req' = [req EXCEPT ![r] =
                     [AdapterCall("insertFeedback", u, wid, k, outcome, res)
                         EXCEPT !.synced = res.value]]
    /\ gorse' = GorseInsertFeedback(gorse, u, wid, k, outcome)
    /\ UNCHANGED <<article, userInteraction, cloudinary, ttsCalls, feed, detached>>

gsDeleteFeedback(r, u, wid, k, outcome) ==
    /\ req[r].pc = "idle"
    /\ LET res == deleteFeedback(outcome)
       IN req' = [req EXCEPT ![r] =
                     [AdapterCall("deleteFeedback", u, wid, k, outcome, res)
                         EXCEPT !.synced = res.value]]
    /\ gorse' = GorseDeleteFeedback(gorse, u, wid, k, outcome)
    /\ UNCHANGED <<article, userInteraction, cloudinary, ttsCalls, feed, detached>>

\* The recommender answers GET /api/recommend/... with the page ids it holds
\* feedback for.
gsGetRecommendations(r, u, outcome) ==
    /\ req[r].pc = "idle"
    /\ LET ids == IF \E f \in gorse.feedback : f[2] = u
                  THEN <<(CHOOSE f \in gorse.feedback : f[2] = u)[3]>>
                  ELSE <<"w1">>
           res == getRecommendations(outcome, ids)
       IN req' = [req EXCEPT ![r] =
                     [AdapterCall("getRecommendations", u, "-", "-", outcome, res)
                         EXCEPT !.recommendations = res.value]]
    /\ UNCHANGED <<article, userInteraction, cloudinary, ttsCalls, feed, gorse,
                   detached>>

\* ---------------------------------------------------- upsertFromWikipedia
upsertFromWikipedia(r, wid, url) ==
    /\ req[r].pc = "idle"
    /\ req' = [req EXCEPT ![r] = [IdleReq EXCEPT
                  !.op = "upsertFromWikipedia", !.pc = "up_find",
                  !.wikipediaId = wid, !.wikipediaUrl = url,
                  !.after = {s \in Reqs : req[s].pc = "done"}]]
    /\ UNCHANGED <<article, userInteraction, cloudinary, ttsCalls, feed, gorse, detached>>

\* await prisma.article.findFirst: any row that matches, no order given.
upFindFirst(r) ==
    /\ req[r].pc = "up_find"
    /\ LET wid == req[r].wikipediaId
           url == req[r].wikipediaUrl
           \* the calls for the same identity that found nothing and wait to insert
           racing == {s \in Reqs \ {r} :
                         /\ req[s].op = "upsertFromWikipedia" /\ req[s].pc = "up_create"
                         /\ req[s].wikipediaId = wid /\ req[s].wikipediaUrl = url}
       IN \/ \E m \in FindFirstMatches(wid, url) :
                 req' = [req EXCEPT ![r] =
                            [Respond(r, 200) EXCEPT !.existing = "found",
                                                    !.created = FALSE, !.result = m]]
          \/ /\ FindFirstMatches(wid, url) = {}
             /\ req' = [req EXCEPT ![r] =
                           [req[r] EXCEPT !.pc = "up_create", !.existing = "none",
                                          !.peers = racing]]
    /\ UNCHANGED <<article, userInteraction, cloudinary, ttsCalls, feed, gorse, detached>>

\* await prisma.article.create: P2002 from the unique indexes is not caught.
upCreate(r) ==
    /\ req[r].pc = "up_create"
    /\ LET wid == req[r].wikipediaId
           url == req[r].wikipediaUrl
       IN IF ArticleUniqueViolation(wid, url)
          THEN /\ req' = [req EXCEPT ![r] = Respond(r, errorHandler("P2002"))]
               /\ UNCHANGED article
          ELSE \E a \in FreshIds :
                  /\ article' = [article EXCEPT ![a] = NewArticle(wid, url)]
                  /\ req' = [req EXCEPT ![r] =
                                [req[r] EXCEPT !.pc = "up_gorse", !.result = a]]
    /\ UNCHANGED <<userInteraction, cloudinary, ttsCalls, feed, gorse, detached>>

\* await gorseService.upsertItem(data.id, data.title), whatever the
\* recommender does; then { article, created: true }.
upGorse(r) ==
    /\ req[r].pc = "up_gorse"
    /\ \E outcome \in GorseOutcomes :
          LET res == upsertItem(outcome)
          IN req' = [req EXCEPT ![r] =
                        IF res.threw
                        THEN [Respond(r, errorHandler("Error"))
                                 EXCEPT !.outcome = outcome, !.threw = TRUE]
                        ELSE [Respond(r, 201)
                                 EXCEPT !.created = TRUE, !.outcome = outcome,
                                        !.synced = res.value]]
    /\ gorse' = GorseUpsertItem(gorse, req[r].wikipediaId)
    /\ UNCHANGED <<article, userInteraction, cloudinary, ttsCalls, feed, detached>>

\* ------------------------------------------------------------ createArticle
\* POST /articles (admin): the body carries a wikipediaUrl and no wikipediaId.
createArticle(r, url) ==
    /\ req[r].pc = "idle"
    /\ req' = [req EXCEPT ![r] = [IdleReq EXCEPT
                  !.op = "createArticle", !.pc = "ca_create",
                  !.wikipediaId = "null", !.wikipediaUrl = url]]
    /\ UNCHANGED <<article, userInteraction, cloudinary, ttsCalls, feed, gorse, detached>>

\* await prisma.article.create
caCreate(r) ==
    /\ req[r].pc = "ca_create"
    /\ LET url == req[r].wikipediaUrl
       IN IF ArticleUniqueViolation("null", url)
          THEN /\ req' = [req EXCEPT ![r] = Respond(r, errorHandler("P2002"))]
               /\ UNCHANGED article
          ELSE \E a \in FreshIds :
                  /\ article' = [article EXCEPT ![a] = NewArticle("null", url)]
                  /\ req' = [req EXCEPT ![r] =
                                [Respond(r, 201) EXCEPT !.created = TRUE, !.result = a]]
    /\ UNCHANGED <<userInteraction, cloudinary, ttsCalls, feed, gorse, detached>>

\* An empty catalogue.
InitUpsert ==
    /\ article = [a \in ArticleIds |-> NoArticle]
    /\ userInteraction = [key \in Users \X ArticleIds \X InteractionType |-> 0]
    /\ cloudinary = {}
    /\ ttsCalls = [a \in ArticleIds |-> 0]
    /\ feed = [u \in Users |-> NoFeed]
    /\ gorse = NoGorse
    /\ detached = [a \in ArticleIds |-> NoTask]
    /\ req = [r \in Reqs |-> IdleReq]

NextUpsert ==
    \E r \in Reqs :
        \/ \E wid \in WikipediaIds, url \in WikipediaUrls :
               upsertFromWikipedia(r, wid, url)
        \/ upFindFirst(r)
        \/ upCreate(r)
        \/ upGorse(r)
        \/ \E url \in WikipediaUrls : createArticle(r, url)
        \/ caCreate(r)
        \/ Finish(r)

SpecUpsert == InitUpsert /\ [][NextUpsert]_vars

\* Upserts with the recommender in every condition, and the operations of
\* the adapter called by themselves.
NextGorse ==
    \E r \in Reqs :
        \/ \E wid \in WikipediaIds, url \in WikipediaUrls :
               upsertFromWikipedia(r, wid, url)
        \/ upFindFirst(r)
        \/ upCreate(r)
        \/ upGorse(r)
        \/ \E k \in InteractionType, outcome \in GorseOutcomes :
               gsInsertFeedback(r, "u1", "w1", k, outcome)
        \/ \E k \in {"LIKE", "SAVE"}, outcome \in GorseOutcomes :
               gsDeleteFeedback(r, "u1", "w1", k, outcome)
        \/ \E outcome \in GorseOutcomes : gsGetRecommendations(r, "u1", outcome)
        \/ Finish(r)

SpecGorse == InitUpsert /\ [][NextGorse]_vars

\* ---------------------------------------------------------- TTSService
\* cloudinary.uploader.upload(..., { folder: 'wikiscrolls/audio',
\* public_id: `article-${articleId}-audio`, format: 'mp3', overwrite: true }):
\* the public id of the object written for an article.
UploadPublicId(a) == <<"wikiscrolls/audio", <<"article", a, "audio">>>>

\* cloudinaryResult.secure_url: the folder, the file name and its extension
\* (the host, cloud name and version come before and are not read back).
SecureUrl(publicId) == <<publicId[1], publicId[2], "mp3">>

\* deleteAudio: the last segment of the URL without its extension, under the
\* folder wikiscrolls/audio.
PublicIdFromUrl(audioUrl) == <<"wikiscrolls/audio", audioUrl[2]>>

\* --------------------------------------------------------- regenerateAudio
regenerateAudio(r, a) ==
    /\ req[r].pc = "idle"
    /\ req' = [req EXCEPT ![r] = [IdleReq EXCEPT
                  !.op = "regenerateAudio", !.pc = "ra_get", !.articleId = a]]
    /\ UNCHANGED <<article, userInteraction, cloudinary, ttsCalls, feed, gorse, detached>>

\* await this.getArticleById(id): NotFoundError, or the row as it is now.
raGetArticle(r) ==
    /\ req[r].pc = "ra_get"
    /\ LET a == req[r].articleId
       IN req' = [req EXCEPT ![r] =
                     IF ~article[a].exists
                     THEN Respond(r, errorHandler("NotFoundError"))
                     ELSE [req[r] EXCEPT
                              !.audioUrl = article[a].audioUrl,
                              !.pc = IF article[a].audioUrl # NullUrl
                                     THEN "ra_delete" ELSE "ra_tts"]]
    /\ UNCHANGED <<article, userInteraction, cloudinary, ttsCalls, feed, gorse, detached>>

\* await ttsService.deleteAudio(article.audioUrl): the object is destroyed,
\* or the storage call fails and deleteAudio throws.
raDeleteAudio(r) ==
    /\ req[r].pc = "ra_delete"
    /\ \/ /\ cloudinary' = cloudinary \ {PublicIdFromUrl(req[r].audioUrl)}
          /\ req' = [req EXCEPT ![r] = [req[r] EXCEPT !.pc = "ra_tts"]]
       \/ /\ req' = [req EXCEPT ![r] = Respond(r, errorHandler("Error"))]
          /\ UNCHANGED cloudinary
    /\ UNCHANGED <<article, userInteraction, ttsCalls, feed, gorse, detached>>

\* ttsService.generateAudioSummary(article.aiSummary, id) is called: nothing
\* in regenerateAudio or in TTSService looks for a synthesis in progress.
raGenerateAudioSummary(r) ==
    /\ req[r].pc = "ra_tts"
    /\ ttsCalls[req[r].articleId] < MaxTts
    /\ ttsCalls' = [ttsCalls EXCEPT ![req[r].articleId] = @ + 1]
    /\ req' = [req EXCEPT ![r] = [req[r] EXCEPT !.pc = "ra_synth", !.tts = TRUE]]
    /\ UNCHANGED <<article, userInteraction, cloudinary, feed, gorse, detached>>

\* await client.synthesizeSpeech(request): audio content, or an error that
\* textToSpeech rethrows.
raSynthesizeSpeech(r) ==
    /\ req[r].pc = "ra_synth"
    /\ \/ req' = [req EXCEPT ![r] = [req[r] EXCEPT !.pc = "ra_upload"]]
       \/ req' = [req EXCEPT ![r] = Respond(r, errorHandler("Error"))]
    /\ UNCHANGED <<article, userInteraction, cloudinary, ttsCalls, feed, gorse, detached>>

\* await cloudinary.uploader.upload(..., overwrite: true): the object is
\* written, or the upload fails.
raUpload(r) ==
    /\ req[r].pc = "ra_upload"
    /\ \/ /\ cloudinary' = cloudinary \cup {UploadPublicId(req[r].articleId)}
          /\ req' = [req EXCEPT ![r] =
                        [req[r] EXCEPT
                            !.pc = "ra_update",
                            !.newAudioUrl = SecureUrl(UploadPublicId(req[r].articleId))]]
       \/ /\ req' = [req EXCEPT ![r] = Respond(r, errorHandler("Error"))]
          /\ UNCHANGED cloudinary
    /\ UNCHANGED <<article, userInteraction, ttsCalls, feed, gorse, detached>>

\* await prisma.article.update({ data: { audioUrl } })
raUpdate(r) ==
    /\ req[r].pc = "ra_update"
    /\ LET a == req[r].articleId
       IN IF ~article[a].exists
          THEN /\ req' = [req EXCEPT ![r] = Respond(r, errorHandler("P2025"))]
               /\ UNCHANGED article
          ELSE /\ article' = [article EXCEPT ![a].audioUrl = req[r].newAudioUrl]
               /\ req' = [req EXCEPT ![r] = Respond(r, 200)]
    /\ UNCHANGED <<userInteraction, cloudinary, ttsCalls, feed, gorse, detached>>

NextAudio ==
    \E r \in Reqs :
        \/ \E a \in ArticleIds : regenerateAudio(r, a)
        \/ raGetArticle(r)
        \/ raDeleteAudio(r)
        \/ raGenerateAudioSummary(r)
        \/ raSynthesizeSpeech(r)
        \/ raUpload(r)
        \/ raUpdate(r)
        \/ Finish(r)

SpecAudio == InitSeeded /\ [][NextAudio]_vars

\* -------------------------------------------------------------- AIService
\* What the text model can answer: a summary; a comma-separated list of
\* tags, given by its parts.
Summaries == {"s1", "s2"}
TagTexts == {<<"t1", "", "t2">>}
MaxTags == 5

\* summarizeArticle: the text of the response; anything thrown is rethrown
\* as Error('Failed to generate AI summary').
summarizeArticle_Swallow(ok, text) ==
    [threw |-> FALSE, value |-> IF ok THEN text ELSE "null"]

summarizeArticle(ok, text) ==
    [threw |-> ~ok, value |-> IF ok THEN text ELSE "null"]

\* generateTags: split(','), trim, drop the empty parts, slice(0, maxTags);
\* anything thrown is rethrown as Error('Failed to generate tags').
generateTags(ok, parts) ==
    LET kept == SelectSeq(parts, LAMBDA t : t # "")
        n == IF Len(kept) < MaxTags THEN Len(kept) ELSE MaxTags
    IN [threw |-> ~ok, value |-> IF ok THEN SubSeq(kept, 1, n) ELSE <<>>]

\* ------------------------------------------------- processAndCreateArticle
\* prisma.article.create({ data: { ...data, aiSummary, tags, isProcessed: false } })
ProcessedArticle_Done(url, aiSummary, tags) ==
    [NewArticle("null", url) EXCEPT !.aiSummary = aiSummary, !.tags = tags,
                                    !.isProcessed = TRUE]

ProcessedArticle(url, aiSummary, tags) ==
    [NewArticle("null", url) EXCEPT !.aiSummary = aiSummary, !.tags = tags,
                                    !.isProcessed = FALSE]

\* .then: prisma.article.update({ data: { audioUrl, isProcessed: true } })
AudioUpdate(row, audioUrl) ==
    [row EXCEPT !.audioUrl = audioUrl, !.isProcessed = TRUE]

\* .catch((error) => logger.error('Failed to generate audio', ...)): the
\* rejection ends here.
catchDetached_None(error) == [pc |-> "unhandledRejection", error |-> error]

catchDetached(error) == [pc |-> "logged", error |-> error]

\* POST /api/ai/process-article
processAndCreateArticle(r, url) ==
    /\ req[r].pc = "idle"
    /\ req' = [req EXCEPT ![r] = [IdleReq EXCEPT
                  !.op = "processAndCreateArticle", !.pc = "pa_summary",
                  !.wikipediaUrl = url]]
    /\ UNCHANGED <<article, userInteraction, cloudinary, ttsCalls, feed, gorse, detached>>

\* const aiSummary = await aiService.summarizeArticle(content, 200); what is
\* thrown goes through catch (error) { ...; throw error } to the caller.
paSummarizeArticle(r) ==
    /\ req[r].pc = "pa_summary"
    /\ \E ok \in BOOLEAN, text \in Summaries :
          LET res == summarizeArticle(ok, text)
              called == [req[r] EXCEPT !.ai = TRUE,
                                       !.outcome = IF ok THEN "ai_ok" ELSE "ai_error"]
          IN req' = [req EXCEPT ![r] =
                        IF res.threw
                        THEN [called EXCEPT !.pc = "done",
                                            !.status = errorHandler("Error")]
                        ELSE [called EXCEPT !.pc = "pa_tags",
                                            !.summary = res.value]]
    /\ UNCHANGED <<article, userInteraction, cloudinary, ttsCalls, feed, gorse, detached>>

\* const tags = await aiService.generateTags(content, 5)
paGenerateTags(r) ==
    /\ req[r].pc = "pa_tags"
    /\ \E ok \in BOOLEAN, parts \in TagTexts :
          LET res == generateTags(ok, parts)
              called == [req[r] EXCEPT !.outcome = IF ok THEN "ai_ok" ELSE "ai_error"]
          IN req' = [req EXCEPT ![r] =
                        IF res.threw
                        THEN [called EXCEPT !.pc = "done",
                                            !.status = errorHandler("Error")]
                        ELSE [called EXCEPT !.pc = "pa_create",
                                            !.tags = res.value]]
    /\ UNCHANGED <<article, userInteraction, cloudinary, ttsCalls, feed, gorse, detached>>

\* await prisma.article.create; then ttsService.generateAudioSummary is
\* called and runs up to its await of synthesizeSpeech, .then and .catch are
\* attached, and the article is returned: the controller answers 201.
paCreate(r) ==
    /\ req[r].pc = "pa_create"
    /\ LET url == req[r].wikipediaUrl
       IN IF ArticleUniqueViolation("null", url)
          THEN /\ req' = [req EXCEPT ![r] = Respond(r, errorHandler("P2002"))]
               /\ UNCHANGED <<article, ttsCalls, detached>>
          ELSE \E a \in FreshIds :
                  LET row == ProcessedArticle(url, req[r].summary, req[r].tags)
                  IN /\ article' = [article EXCEPT ![a] = row]
                     /\ ttsCalls' = [ttsCalls EXCEPT ![a] = @ + 1]
                     /\ detached' = [detached EXCEPT ![a] =
                                        [pc |-> "synth", error |-> "-"]]
                     /\ req' = [req EXCEPT ![r] =
                                   [Respond(r, 201) EXCEPT
                                       !.created = TRUE, !.result = a,
                                       !.tts = TRUE, !.row = row]]
    /\ UNCHANGED <<userInteraction, cloudinary, feed, gorse>>

\* The detached call: await client.synthesizeSpeech(request)
dtSynthesizeSpeech(a) ==
    /\ detached[a].pc = "synth"
    /\ \/ detached' = [detached EXCEPT ![a].pc = "upload"]
       \/ detached' = [detached EXCEPT ![a] = catchDetached("tts_error")]
    /\ UNCHANGED <<article, userInteraction, cloudinary, ttsCalls, feed, gorse, req>>

\* The detached call: await cloudinary.uploader.upload(..., overwrite: true)
dtUpload(a) ==
    /\ detached[a].pc = "upload"
    /\ \/ /\ cloudinary' = cloudinary \cup {UploadPublicId(a)}
          /\ detached' = [detached EXCEPT ![a].pc = "update"]
       \/ /\ detached' = [detached EXCEPT ![a] = catchDetached("upload_error")]
          /\ UNCHANGED cloudinary
    /\ UNCHANGED <<article, userInteraction, ttsCalls, feed, gorse, req>>

\* The detached call: .then(async (audioUrl) => await prisma.article.update);
\* P2025 when the article has been deleted.
dtUpdate(a) ==
    /\ detached[a].pc = "update"
    /\ IF ~article[a].exists
       THEN /\ detached' = [detached EXCEPT ![a] = catchDetached("P2025")]
            /\ UNCHANGED article
       ELSE /\ article' = [article EXCEPT ![a] =
                              AudioUpdate(@, SecureUrl(UploadPublicId(a)))]
            /\ detached' = [detached EXCEPT ![a].pc = "done"]
    /\ UNCHANGED <<userInteraction, cloudinary, ttsCalls, feed, gorse, req>>

\* -------------------------------------------------------- regenerateSummary
\* prisma.article.update({ where: { id }, data: { aiSummary } })
SummaryUpdate_ResetAudio(row, aiSummary) ==
    [row EXCEPT !.aiSummary = aiSummary, !.audioUrl = NullUrl,
                !.isProcessed = FALSE]

SummaryUpdate(row, aiSummary) == [row EXCEPT !.aiSummary = aiSummary]

\* POST /api/ai/regenerate-summary/:articleId
regenerateSummary(r, a) ==
    /\ req[r].pc = "idle"
    /\ req' = [req EXCEPT ![r] = [IdleReq EXCEPT
                  !.op = "regenerateSummary", !.pc = "rs_get", !.articleId = a]]
    /\ UNCHANGED <<article, userInteraction, cloudinary, ttsCalls, feed, gorse, detached>>

\* await this.getArticleById(id)
rsGetArticle(r) ==
    /\ req[r].pc = "rs_get"
    /\ req' = [req EXCEPT ![r] =
                  IF ~article[req[r].articleId].exists
                  THEN Respond(r, errorHandler("NotFoundError"))
                  ELSE [req[r] EXCEPT !.pc = "rs_summary"]]
    /\ UNCHANGED <<article, userInteraction, cloudinary, ttsCalls, feed, gorse, detached>>

\* const aiSummary = await aiService.summarizeArticle(content, 200)
rsSummarizeArticle(r) ==
    /\ req[r].pc = "rs_summary"
    /\ \E ok \in BOOLEAN, text \in Summaries :
          LET res == summarizeArticle(ok, text)
              called == [req[r] EXCEPT !.ai = TRUE,
                                       !.outcome = IF ok THEN "ai_ok" ELSE "ai_error"]
          IN req' = [req EXCEPT ![r] =
                        IF res.threw
                        THEN [called EXCEPT !.pc = "done",
                                            !.status = errorHandler("Error")]
                        ELSE [called EXCEPT !.pc = "rs_update",
                                            !.summary = res.value]]
    /\ UNCHANGED <<article, userInteraction, cloudinary, ttsCalls, feed, gorse, detached>>

\* return await prisma.article.update(...): P2025 when the row is gone.
rsUpdate(r) ==
    /\ req[r].pc = "rs_update"
    /\ LET a == req[r].articleId
       IN IF ~article[a].exists
          THEN /\ req' = [req EXCEPT ![r] = Respond(r, errorHandler("P2025"))]
               /\ UNCHANGED article
          ELSE /\ article' = [article EXCEPT ![a] = SummaryUpdate(@, req[r].summary)]
               /\ req' = [req EXCEPT ![r] =
                             [Respond(r, 200) EXCEPT !.row = article'[a]]]
    /\ UNCHANGED <<userInteraction, cloudinary, ttsCalls, feed, gorse, detached>>

\* ------------------------------------------------------------ deleteArticle
\* DELETE /articles/:id (admin)
deleteArticle(r, a) ==
    /\ req[r].pc = "idle"
    /\ req' = [req EXCEPT ![r] = [IdleReq EXCEPT
                  !.op = "deleteArticle", !.pc = "da_find", !.articleId = a]]
    /\ UNCHANGED <<article, userInteraction, cloudinary, ttsCalls, feed, gorse, detached>>

\* await prisma.article.findUnique; NotFoundError when there is no row.
daFind(r) ==
    /\ req[r].pc = "da_find"
    /\ req' = [req EXCEPT ![r] =
                  IF ~article[req[r].articleId].exists
                  THEN Respond(r, errorHandler("NotFoundError"))
                  ELSE [req[r] EXCEPT !.pc = "da_delete"]]
    /\ UNCHANGED <<article, userInteraction, cloudinary, ttsCalls, feed, gorse, detached>>

\* await prisma.article.delete; the rows that refer to the article go with it.
daDelete(r) ==
    /\ req[r].pc = "da_delete"
    /\ LET a == req[r].articleId
       IN IF ~article[a].exists
          THEN /\ req' = [req EXCEPT ![r] = Respond(r, errorHandler("P2025"))]
               /\ UNCHANGED <<article, userInteraction>>
          ELSE /\ article' = [article EXCEPT ![a] = DeletedArticle]
               /\ userInteraction' =
                     [key \in Users \X ArticleIds \X InteractionType |->
                         IF key[2] = a THEN 0 ELSE userInteraction[key]]
               /\ req' = [req EXCEPT ![r] = Respond(r, 204)]
    /\ UNCHANGED <<cloudinary, ttsCalls, feed, gorse, detached>>

\* The AI routes on one connection and the deletion of articles on another,
\* on an empty catalogue; the detached syntheses run beside both.
NextProcess ==
    \/ \E url \in WikipediaUrls : processAndCreateArticle("r1", url)
    \/ paSummarizeArticle("r1")
    \/ paGenerateTags("r1")
    \/ paCreate("r1")
    \/ \E a \in ArticleIds : regenerateSummary("r1", a)
    \/ rsGetArticle("r1")
    \/ rsSummarizeArticle("r1")
    \/ rsUpdate("r1")
    \/ \E a \in ArticleIds : deleteArticle("r2", a)
    \/ daFind("r2")
    \/ daDelete("r2")
    \/ \E r \in Reqs : Finish(r)
    \/ \E a \in ArticleIds :
          \/ dtSynthesizeSpeech(a)
          \/ dtUpload(a)
          \/ dtUpdate(a)

SpecProcess == InitUpsert /\ [][NextProcess]_vars

\* ------------------------------------------------------------ Feed table
\* The articleIds a request can carry: lists of every length up to
\* MaxFeedLen (an id may repeat in a feed).
ArticleIdLists ==
    UNION {[1..n -> {"a1"}] : n \in 0..MaxFeedLen}

\* The positions a request can carry: -1 is refused by the validators,
\* MaxFeedLen + 1 is past the end of every list.

Positions == (0 - 1)..(MaxFeedLen + 1)

\* The bodies of PUT /feeds/me and PUT /feeds/:userId.
UpdateFeedData ==
    {d \in [hasArticleIds : BOOLEAN, articleIds : ArticleIdLists,
            hasCurrentPosition : BOOLEAN, currentPosition : Positions] :
        /\ (~d.hasArticleIds => d.articleIds = <<>>)
        /\ (~d.hasCurrentPosition => d.currentPosition = 0)}

\* if (userId !== requestingUserId && !isAdmin) throw new ForbiddenError(...)
NotOwnerNorAdmin_Never(userId, requestingUserId, isAdmin) == FALSE

NotOwnerNorAdmin(userId, requestingUserId, isAdmin) ==
    userId # requestingUserId /\ ~isAdmin

\* prisma.user.findUnique({ where: { id: userId } }) of createFeed.
UserExists(u) == u \in Users

\* prisma.feed.update({ where: { userId }, data }): the fields given are
\* written, the others are kept.
FeedUpdate(row, data) ==
    [row EXCEPT
        !.articleIds = IF data.hasArticleIds THEN data.articleIds ELSE @,
        !.currentPosition = IF data.hasCurrentPosition
                            THEN data.currentPosition ELSE @]

\* data: { articleIds, currentPosition: 0, updatedAt } of regenerateFeed.
RegenerateData_ArticleIdsOnly(ids) ==
    [hasArticleIds |-> TRUE, articleIds |-> ids,
     hasCurrentPosition |-> FALSE, currentPosition |-> 0]

RegenerateData(ids) ==
    [hasArticleIds |-> TRUE, articleIds |-> ids,
     hasCurrentPosition |-> TRUE, currentPosition |-> 0]

\* body('currentPosition').optional().isInt({ min: 0 })
validateUpdateFeed(data) ==
    data.hasCurrentPosition => data.currentPosition >= 0

\* body('position').notEmpty().isInt({ min: 0 })
validateUpdateFeedPosition(position) == position >= 0

\* A feed call starts: the slot holds its arguments.
FeedCall(op, pc, userId, requestingUserId, isAdmin, data) ==
    [IdleReq EXCEPT !.op = op, !.pc = pc, !.userId = userId,
                    !.requestingUserId = requestingUserId,
                    !.isAdmin = isAdmin, !.data = data]

\* --------------------------------------------------------- getFeedByUserId
getFeedByUserId(r, userId, requestingUserId, isAdmin) ==
    /\ req[r].pc = "idle"
    /\ LET call == FeedCall("getFeedByUserId", "gf_find", userId,
                            requestingUserId, isAdmin, NoData)
       IN req' = [req EXCEPT ![r] =
                     IF NotOwnerNorAdmin(userId, requestingUserId, isAdmin)
                     THEN [call EXCEPT !.pc = "done",
                                       !.status = errorHandler("ForbiddenError")]
                     ELSE call]
    /\ UNCHANGED <<article, userInteraction, cloudinary, ttsCalls, feed, gorse, detached>>

\* await prisma.feed.findUnique; NotFoundError when there is none.
gfFind(r) ==
    /\ req[r].pc = "gf_find"
    /\ req' = [req EXCEPT ![r] =
                  IF feed[req[r].userId].exists
                  THEN [Respond(r, 200) EXCEPT !.existing = "found"]
                  ELSE [Respond(r, errorHandler("NotFoundError"))
                           EXCEPT !.existing = "none"]]
    /\ UNCHANGED <<article, userInteraction, cloudinary, ttsCalls, feed, gorse, detached>>

\* --------------------------------------------------------------- getMyFeed
getMyFeed(r, u) ==
    /\ req[r].pc = "idle"
    /\ req' = [req EXCEPT ![r] =
                  FeedCall("getMyFeed", "gm_find", u, u, FALSE, NoData)]
    /\ UNCHANGED <<article, userInteraction, cloudinary, ttsCalls, feed, gorse, detached>>

\* await prisma.feed.findUnique; without a feed, this.createFeed(userId).
gmFind(r) ==
    /\ req[r].pc = "gm_find"
    /\ LET \* the calls for this user that found no feed and have not created one
           racing == {s \in Reqs \ {r} :
                         /\ req[s].pc \in {"cf_find", "cf_user", "cf_create"}
                         /\ req[s].userId = req[r].userId}
       IN req' = [req EXCEPT ![r] =
                     IF feed[req[r].userId].exists
                     THEN [Respond(r, 200) EXCEPT !.existing = "found"]
                     ELSE [req[r] EXCEPT !.pc = "cf_find", !.existing = "none",
                                         !.peers = racing]]
    /\ UNCHANGED <<article, userInteraction, cloudinary, ttsCalls, feed, gorse, detached>>

\* -------------------------------------------------------------- createFeed
\* POST /feeds/me: createFeed(req.user.id, req.body.articleIds)
createFeed(r, u, ids) ==
    /\ req[r].pc = "idle"
    /\ req' = [req EXCEPT ![r] =
                  FeedCall("createFeed", "cf_find", u, u, FALSE,
                           [NoData EXCEPT !.hasArticleIds = TRUE,
                                          !.articleIds = ids])]
    /\ UNCHANGED <<article, userInteraction, cloudinary, ttsCalls, feed, gorse, detached>>

\* await prisma.feed.findUnique; ForbiddenError when the feed is there.
cfFindExisting(r) ==
    /\ req[r].pc = "cf_find"
    /\ req' = [req EXCEPT ![r] =
                  IF feed[req[r].userId].exists
                  THEN [Respond(r, errorHandler("ForbiddenError"))
                           EXCEPT !.base = feed[req[r].userId].currentPosition]
                  ELSE [req[r] EXCEPT !.pc = "cf_user"]]
    /\ UNCHANGED <<article, userInteraction, cloudinary, ttsCalls, feed, gorse, detached>>

\* await prisma.user.findUnique; NotFoundError when there is no such user.
cfFindUser(r) ==
    /\ req[r].pc = "cf_user"
    /\ req' = [req EXCEPT ![r] =
                  IF UserExists(req[r].userId)
                  THEN [req[r] EXCEPT !.pc = "cf_create"]
                  ELSE Respond(r, errorHandler("NotFoundError"))]
    /\ UNCHANGED <<article, userInteraction, cloudinary, ttsCalls, feed, gorse, detached>>

\* await prisma.feed.create({ userId, articleIds, currentPosition: 0 }): the
\* unique index Feed_userId_key refuses a second row (P2002).  The status is
\* that of the controller that called: 201 for createFeed, 200 otherwise.
cfCreate(r) ==
    /\ req[r].pc = "cf_create"
    /\ LET u == req[r].userId
       IN IF feed[u].exists
          THEN /\ req' = [req EXCEPT ![r] = Respond(r, errorHandler("P2002"))]
               /\ UNCHANGED feed
          ELSE /\ feed' = [feed EXCEPT ![u] = NewFeed(req[r].data.articleIds)]
               /\ req' = [req EXCEPT ![r] =
                             [Respond(r, IF req[r].op = "createFeed"
                                         THEN 201 ELSE 200)
                                 EXCEPT !.created = TRUE]]
    /\ UNCHANGED <<article, userInteraction, cloudinary, ttsCalls, gorse, detached>>

\* -------------------------------------------------------------- updateFeed
updateFeed(r, userId, data, requestingUserId, isAdmin) ==
    /\ req[r].pc = "idle"
    /\ LET call == FeedCall("updateFeed", "uf_find", userId,
                            requestingUserId, isAdmin, data)
       IN req' = [req EXCEPT ![r] =
                     IF NotOwnerNorAdmin(userId, requestingUserId, isAdmin)
                     THEN [call EXCEPT !.pc = "done",
                                       !.status = errorHandler("ForbiddenError")]
                     ELSE call]
    /\ UNCHANGED <<article, userInteraction, cloudinary, ttsCalls, feed, gorse, detached>>

\* PUT /feeds/me and PUT /feeds/:userId: validateUpdateFeed, then
\* handleValidationErrors answers 400 or the controller calls the service.
routeUpdateFeed(r, userId, data, requestingUserId, isAdmin) ==
    IF validateUpdateFeed(data)
    THEN updateFeed(r, userId, data, requestingUserId, isAdmin)
    ELSE /\ req[r].pc = "idle"
         /\ req' = [req EXCEPT ![r] =
                       [FeedCall("updateFeed", "done", userId,
                                 requestingUserId, isAdmin, data)
                           EXCEPT !.status = 400]]
         /\ UNCHANGED <<article, userInteraction, cloudinary, ttsCalls, feed, gorse, detached>>

\* await prisma.feed.findUnique; NotFoundError when there is none.
ufFind(r) ==
    /\ req[r].pc = "uf_find"
    /\ req' = [req EXCEPT ![r] =
                  IF feed[req[r].userId].exists
                  THEN [req[r] EXCEPT !.pc = "uf_update", !.existing = "found"]
                  ELSE [Respond(r, errorHandler("NotFoundError"))
                           EXCEPT !.existing = "none"]]
    /\ UNCHANGED <<article, userInteraction, cloudinary, ttsCalls, feed, gorse, detached>>

\* await prisma.feed.update({ where: { userId }, data }); P2025 when the row
\* has gone.
ufUpdate(r) ==
    /\ req[r].pc = "uf_update"
    /\ LET u == req[r].userId
       IN IF ~feed[u].exists
          THEN /\ req' = [req EXCEPT ![r] = Respond(r, errorHandler("P2025"))]
               /\ UNCHANGED feed
          ELSE /\ feed' = [feed EXCEPT ![u] = FeedUpdate(@, req[r].data)]
               /\ req' = [req EXCEPT ![r] = Respond(r, 200)]
    /\ UNCHANGED <<article, userInteraction, cloudinary, ttsCalls, gorse, detached>>

\* ------------------------------------------------------ updateFeedPosition
updateFeedPosition(r, u, position) ==
    /\ req[r].pc = "idle"
    /\ req' = [req EXCEPT ![r] =
                  FeedCall("updateFeedPosition", "fp_find", u, u, FALSE,
                           [NoData EXCEPT !.hasCurrentPosition = TRUE,
                                          !.currentPosition = position])]
    /\ UNCHANGED <<article, userInteraction, cloudinary, ttsCalls, feed, gorse, detached>>

\* PUT /feeds/me/position: validateUpdateFeedPosition, then
\* handleValidationErrors answers 400 or the controller calls the service.
routeUpdateFeedPosition(r, u, position) ==
    IF validateUpdateFeedPosition(position)
    THEN updateFeedPosition(r, u, position)
    ELSE /\ req[r].pc = "idle"
         /\ req' = [req EXCEPT ![r] =
                       [FeedCall("updateFeedPosition", "done", u, u, FALSE,
                                 [NoData EXCEPT !.hasCurrentPosition = TRUE,
                                                !.currentPosition = position])
                           EXCEPT !.status = 400]]
         /\ UNCHANGED <<article, userInteraction, cloudinary, ttsCalls, feed, gorse, detached>>

\* await prisma.feed.findUnique; NotFoundError when there is none.
fpFind(r) ==
    /\ req[r].pc = "fp_find"
    /\ req' = [req EXCEPT ![r] =
                  IF feed[req[r].userId].exists
                  THEN [req[r] EXCEPT !.pc = "fp_update", !.existing = "found"]
                  ELSE [Respond(r, errorHandler("NotFoundError"))
                           EXCEPT !.existing = "none"]]
    /\ UNCHANGED <<article, userInteraction, cloudinary, ttsCalls, feed, gorse, detached>>

\* await prisma.feed.update({ data: { currentPosition: position } })
fpUpdate(r) ==
    /\ req[r].pc = "fp_update"
    /\ LET u == req[r].userId
       IN IF ~feed[u].exists
          THEN /\ req' = [req EXCEPT ![r] = Respond(r, errorHandler("P2025"))]
               /\ UNCHANGED feed
          ELSE /\ feed' = [feed EXCEPT ![u] = FeedUpdate(@, req[r].data)]
               /\ req' = [req EXCEPT ![r] = Respond(r, 200)]
    /\ UNCHANGED <<article, userInteraction, cloudinary, ttsCalls, gorse, detached>>

\* ---------------------------------------------------------- regenerateFeed
regenerateFeed(r, u, ids) ==
    /\ req[r].pc = "idle"
    /\ req' = [req EXCEPT ![r] =
                  FeedCall("regenerateFeed", "rf_find", u, u, FALSE,
                           [NoData EXCEPT !.hasArticleIds = TRUE,
                                          !.articleIds = ids])]
    /\ UNCHANGED <<article, userInteraction, cloudinary, ttsCalls, feed, gorse, detached>>

\* await prisma.feed.findUnique; without a feed,
\* this.createFeed(userId, articleIds).
rfFind(r) ==
    /\ req[r].pc = "rf_find"
    /\ req' = [req EXCEPT ![r] =
                  IF feed[req[r].userId].exists
                  THEN [req[r] EXCEPT !.pc = "rf_update", !.existing = "found",
                                      !.base = feed[req[r].userId].currentPosition]
                  ELSE [req[r] EXCEPT !.pc = "cf_find", !.existing = "none"]]
    /\ UNCHANGED <<article, userInteraction, cloudinary, ttsCalls, feed, gorse, detached>>

\* await prisma.feed.update({ data: { articleIds, currentPosition: 0, ... } })
rfUpdate(r) ==
    /\ req[r].pc = "rf_update"
    /\ LET u == req[r].userId
       IN IF ~feed[u].exists
          THEN /\ req' = [req EXCEPT ![r] = Respond(r, errorHandler("P2025"))]
               /\ UNCHANGED feed
          ELSE /\ feed' = [feed EXCEPT ![u] =
                              FeedUpdate(@, RegenerateData(req[r].data.articleIds))]
               /\ req' = [req EXCEPT ![r] = Respond(r, 200)]
    /\ UNCHANGED <<article, userInteraction, cloudinary, ttsCalls, gorse, detached>>

\* -------------------------------------------------------------- deleteFeed
deleteFeed(r, userId, requestingUserId, isAdmin) ==
    /\ req[r].pc = "idle"
    /\ LET call == FeedCall("deleteFeed", "df_find", userId,
                            requestingUserId, isAdmin, NoData)
       IN req' = [req EXCEPT ![r] =
                     IF NotOwnerNorAdmin(userId, requestingUserId, isAdmin)
                     THEN [call EXCEPT !.pc = "done",
                                       !.status = errorHandler("ForbiddenError")]
                     ELSE call]
    /\ UNCHANGED <<article, userInteraction, cloudinary, ttsCalls, feed, gorse, detached>>

\* await prisma.feed.findUnique; NotFoundError when there is none.
dfFind(r) ==
    /\ req[r].pc = "df_find"
    /\ req' = [req EXCEPT ![r] =
                  IF feed[req[r].userId].exists
                  THEN [req[r] EXCEPT !.pc = "df_delete", !.existing = "found"]
                  ELSE [Respond(r, errorHandler("NotFoundError"))
                           EXCEPT !.existing = "none"]]
    /\ UNCHANGED <<article, userInteraction, cloudinary, ttsCalls, feed, gorse, detached>>

\* await prisma.feed.delete({ where: { userId } }); P2025 when the row has gone.
dfDelete(r) ==
    /\ req[r].pc = "df_delete"
    /\ LET u == req[r].userId
       IN IF ~feed[u].exists
          THEN /\ req' = [req EXCEPT ![r] = Respond(r, errorHandler("P2025"))]
               /\ UNCHANGED feed
          ELSE /\ feed' = [feed EXCEPT ![u] = NoFeed]
               /\ req' = [req EXCEPT ![r] = Respond(r, 204)]
    /\ UNCHANGED <<article, userInteraction, cloudinary, ttsCalls, gorse, detached>>

\* The feed of one user under the calls that write it: the cursor and the list.
NextFeed ==
    \E r \in Reqs :
        \/ \E ids \in ArticleIdLists : createFeed(r, "u1", ids)
        \/ getMyFeed(r, "u1")
        \/ gmFind(r)
        \/ cfFindExisting(r)
        \/ cfFindUser(r)
        \/ cfCreate(r)
        \/ \E data \in UpdateFeedData : routeUpdateFeed(r, "u1", data, "u1", FALSE)
        \/ ufFind(r)
        \/ ufUpdate(r)
        \/ \E p \in Positions : routeUpdateFeedPosition(r, "u1", p)
        \/ fpFind(r)
        \/ fpUpdate(r)
        \/ \E ids \in ArticleIdLists : regenerateFeed(r, "u1", ids)
        \/ rfFind(r)
        \/ rfUpdate(r)
        \/ Finish(r)

SpecFeed == InitSeeded /\ [][NextFeed]_vars

\* The feeds of all users under the calls that name a target user, with the
\* calls that create and replace a feed.
FeedLists == {<<>>, <<"a1">>}

NextFeedAccess ==
    \E r \in Reqs :
        \/ \E u \in Users : getMyFeed(r, u)
        \/ gmFind(r)
        \/ \E u \in Users, ids \in FeedLists : createFeed(r, u, ids)
        \/ cfFindExisting(r)
        \/ cfFindUser(r)
        \/ cfCreate(r)
        \/ \E u \in Users, ids \in FeedLists : regenerateFeed(r, u, ids)
        \/ rfFind(r)
        \/ rfUpdate(r)
        \/ \E u, v \in Users, isAdmin \in BOOLEAN : getFeedByUserId(r, u, v, isAdmin)
        \/ gfFind(r)
        \/ \E u, v \in Users, isAdmin \in BOOLEAN :
               updateFeed(r, u, RegenerateData(<<"a1">>), v, isAdmin)
        \/ ufFind(r)
        \/ ufUpdate(r)
        \/ \E u, v \in Users, isAdmin \in BOOLEAN : deleteFeed(r, u, v, isAdmin)
        \/ dfFind(r)
        \/ dfDelete(r)
        \/ Finish(r)

SpecFeedAccess == InitSeeded /\ [][NextFeedAccess]_vars

\* ----------------------------------------------- bulkUpsertFromWikipedia
\* The pages a batch can name, each with its page id and its URL.
WikipediaArticles == {<<"w1", "url1">>, <<"w2", "url2">>}

\* The bodies of POST /articles/upsert-batch: 1 to MaxBatch items; a page
\* may come twice.
Batches ==
    UNION {[1..n -> WikipediaArticles] : n \in 1..MaxBatch}

\* for (const articleData of articles): the next item, or the loop is over
\* and the results are returned.
NextItem(call) ==
    IF call.index < Len(call.articles)
    THEN [call EXCEPT !.index = @ + 1, !.pc = "bu_find"]
    ELSE [call EXCEPT !.pc = "done", !.status = 200]

\* catch (error) { logger.error(...) }: the item is left out and the loop
\* goes on.
CatchFailedItem_Rethrow(call) ==
    [call EXCEPT !.pc = "done", !.status = errorHandler("P2002")]

CatchFailedItem(call) == NextItem([call EXCEPT !.failed = @ + 1])

\* results.articles.push(article); created ? results.created++ : results.existing++
PushResult(call, a, created) ==
    [call EXCEPT
        !.results = [articles |-> Append(@.articles, a),
                     created |-> IF created THEN @.created + 1 ELSE @.created,
                     existing |-> IF created THEN @.existing ELSE @.existing + 1]]

bulkUpsertFromWikipedia(r, articles) ==
    /\ req[r].pc = "idle"
    /\ req' = [req EXCEPT ![r] = [IdleReq EXCEPT
                  !.op = "bulkUpsertFromWikipedia", !.pc = "bu_find",
                  !.articles = articles, !.index = 1]]
    /\ UNCHANGED <<article, userInteraction, cloudinary, ttsCalls, feed, gorse, detached>>

\* upsertFromWikipedia(articleData): await prisma.article.findFirst
buFindFirst(r) ==
    /\ req[r].pc = "bu_find"
    /\ LET wid == req[r].articles[req[r].index][1]
           url == req[r].articles[req[r].index][2]
       IN \/ \E m \in FindFirstMatches(wid, url) :
                 req' = [req EXCEPT ![r] = NextItem(PushResult(req[r], m, FALSE))]
          \/ /\ FindFirstMatches(wid, url) = {}
             /\ req' = [req EXCEPT ![r] = [req[r] EXCEPT !.pc = "bu_create"]]
    /\ UNCHANGED <<article, userInteraction, cloudinary, ttsCalls, feed, gorse, detached>>

\* upsertFromWikipedia(articleData): await prisma.article.create; its P2002
\* is caught by the loop.
buCreate(r) ==
    /\ req[r].pc = "bu_create"
    /\ LET wid == req[r].articles[req[r].index][1]
           url == req[r].articles[req[r].index][2]
       IN IF ArticleUniqueViolation(wid, url)
          THEN /\ req' = [req EXCEPT ![r] = CatchFailedItem(req[r])]
               /\ UNCHANGED article
          ELSE \E a \in FreshIds :
                  /\ article' = [article EXCEPT ![a] = NewArticle(wid, url)]
                  /\ req' = [req EXCEPT ![r] =
                                [req[r] EXCEPT !.pc = "bu_gorse", !.result = a,
                                               !.inserted = @ + 1]]
    /\ UNCHANGED <<userInteraction, cloudinary, ttsCalls, feed, gorse, detached>>

\* upsertFromWikipedia(articleData): await gorseService.upsertItem, then
\* { article, created: true }.
buGorse(r) ==
    /\ req[r].pc = "bu_gorse"
    /\ \E outcome \in GorseOutcomes :
          req' = [req EXCEPT ![r] =
                     IF upsertItem(outcome).threw
                     THEN CatchFailedItem(req[r])
                     ELSE NextItem(PushResult(req[r], req[r].result, TRUE))]
    /\ gorse' = GorseUpsertItem(gorse, req[r].articles[req[r].index][1])
    /\ UNCHANGED <<article, userInteraction, cloudinary, ttsCalls, feed, detached>>

\* Batches and single upserts on an empty catalogue.
NextBulk ==
    \E r \in Reqs :
        \/ \E articles \in Batches : bulkUpsertFromWikipedia(r, articles)
        \/ buFindFirst(r)
        \/ buCreate(r)
        \/ buGorse(r)
        \/ \E page \in WikipediaArticles :
               upsertFromWikipedia(r, page[1], page[2])
        \/ upFindFirst(r)
        \/ upCreate(r)
        \/ upGorse(r)
        \/ Finish(r)

SpecBulk == InitUpsert /\ [][NextBulk]_vars

\* ----------------------------------------------------------- updateArticle
\* The bodies of PATCH and PUT /articles/:id: validateUpdateArticle checks
\* the fields it names (wikipediaUrl among them) and handleValidationErrors
\* lets every other field of the body through, so a body can carry likeCount.
UpdateArticleBodies ==
    {b \in [hasWikipediaUrl : BOOLEAN, wikipediaUrl : WikipediaUrls \cup {"null"},
            hasLikeCount : BOOLEAN, likeCount : 0..MaxViews] :
        /\ (b.hasWikipediaUrl <=> b.wikipediaUrl # "null")
        /\ (~b.hasLikeCount => b.likeCount = 0)}

\* prisma.article.update({ where: { id }, data }): the fields given are
\* written, the others are kept.
ArticleUpdate(row, data) ==
    [row EXCEPT
        !.wikipediaUrl = IF data.hasWikipediaUrl THEN data.wikipediaUrl ELSE @,
        !.likeCount = IF data.hasLikeCount THEN data.likeCount ELSE @]

\* The controller calls updateArticle(req.params.id, req.body).
updateArticle(r, a, data) ==
    /\ req[r].pc = "idle"
    /\ req' = [req EXCEPT ![r] = [IdleReq EXCEPT
                  !.op = "updateArticle", !.pc = "ua_find",
                  !.articleId = a, !.body = data]]
    /\ UNCHANGED <<article, userInteraction, cloudinary, ttsCalls, feed, gorse, detached>>

\* await prisma.article.findUnique; NotFoundError when there is none.
uaFind(r) ==
    /\ req[r].pc = "ua_find"
    /\ req' = [req EXCEPT ![r] =
                  IF article[req[r].articleId].exists
                  THEN [req[r] EXCEPT !.pc = "ua_update", !.existing = "found"]
                  ELSE [Respond(r, errorHandler("NotFoundError"))
                           EXCEPT !.existing = "none"]]
    /\ UNCHANGED <<article, userInteraction, cloudinary, ttsCalls, feed, gorse, detached>>

\* await prisma.article.update({ where: { id }, data }); P2002 when the
\* wikipediaUrl given is the one of another article.
uaUpdate(r) ==
    /\ req[r].pc = "ua_update"
    /\ LET a == req[r].articleId
           data == req[r].body
           taken == /\ data.hasWikipediaUrl
                    /\ \E b \in ArticleIds \ {a} :
                           /\ article[b].exists
                           /\ article[b].wikipediaUrl = data.wikipediaUrl
       IN IF ~article[a].exists
          THEN /\ req' = [req EXCEPT ![r] = Respond(r, errorHandler("P2025"))]
               /\ UNCHANGED article
          ELSE IF taken
          THEN /\ req' = [req EXCEPT ![r] = Respond(r, errorHandler("P2002"))]
               /\ UNCHANGED article
          ELSE /\ article' = [article EXCEPT ![a] = ArticleUpdate(@, data)]
               /\ req' = [req EXCEPT ![r] = Respond(r, 200)]
    /\ UNCHANGED <<userInteraction, cloudinary, ttsCalls, feed, gorse, detached>>

\* The calls that reach an article row: likes and their deletion, article
\* updates, view-count increments and audio regeneration.
NextArticle ==
    \E r \in Reqs :
        \/ \E a \in ArticleIds : createInteraction(r, "u1", a, "LIKE")
        \/ ciFindArticle(r)
        \/ ciFindExisting(r)
        \/ ciTransaction(r)
        \/ \E a \in ArticleIds : deleteInteraction(r, "u1", a, "LIKE")
        \/ diFindExisting(r)
        \/ diTransaction(r)
        \/ \E a \in ArticleIds, data \in UpdateArticleBodies : updateArticle(r, a, data)
        \/ uaFind(r)
        \/ uaUpdate(r)
        \/ \E a \in ArticleIds : incrementViewCount(r, a)
        \/ ivUpdate(r)
        \/ Finish(r)

SpecArticle == InitSeeded /\ [][NextArticle]_vars

\* ============================================================== claims
IsCall(r, op) == req[r].op = op
Done(r) == req[r].pc = "done"

CountersMatchRows ==
    \A a \in ArticleIds :
        article[a].exists =>
            /\ article[a].likeCount = CountRows(a, "LIKE")
            /\ article[a].saveCount = CountRows(a, "SAVE")

FailedTransactionChangesNothing ==
    \A r \in Reqs :
        (/\ req[r].pc \in {"ci_tx", "di_tx"}
         /\ req'[r].pc = "done"
         /\ req'[r].status \notin {201, 204})
            => UNCHANGED <<article, userInteraction>>

\* C1: for every article, likeCount is the number of LIKE rows and saveCount
\* the number of SAVE rows, in every state reached by createInteraction and
\* deleteInteraction calls whose steps interleave; a transaction that fails
\* changes neither the rows nor the counters.
C1_CounterInvariant ==
    []CountersMatchRows /\ [][FailedTransactionChangesNothing]_vars

\* A like is stored and counted while a racing create for the same row has
\* failed in its transaction and a racing delete has failed in its own.
C1_Witness ==
    /\ article["a1"].likeCount = 1
    /\ userInteraction[Key("u1", "a1", "LIKE")] = 1
    /\ \E r \in Reqs :
           /\ IsCall(r, "createInteraction") /\ Done(r)
           /\ req[r].existing = "none" /\ req[r].status = 409
           /\ req[r].interactionType = "LIKE" /\ req[r].userId = "u1"

SameRow(r, s) ==
    /\ req[r].userId = req[s].userId
    /\ req[r].articleId = req[s].articleId
    /\ req[r].interactionType = req[s].interactionType

\* r and s are createInteraction calls for one LIKE row, and r passed the
\* findUnique check while s had passed it and had not committed yet.
RacingLikes(r, s) ==
    /\ r # s
    /\ IsCall(r, "createInteraction") /\ IsCall(s, "createInteraction")
    /\ req[r].interactionType = "LIKE"
    /\ SameRow(r, s)
    /\ s \in req[r].peers

\* C2: of two createInteraction(u, a, LIKE) calls that both passed the
\* findUnique check before either committed, one is answered 201 and the
\* other 409; one LIKE row exists and likeCount has grown by one.
C2_LikeUniqueness ==
    \A r, s \in Reqs :
        (RacingLikes(r, s) /\ Done(r) /\ Done(s)) =>
            /\ {req[r].status, req[s].status} = {201, 409}
            /\ userInteraction[Key(req[r].userId, req[r].articleId, "LIKE")] = 1
            /\ article[req[r].articleId].likeCount = req[r].base + 1

C2_Witness ==
    \E r, s \in Reqs : RacingLikes(r, s) /\ Done(r) /\ Done(s)

\* C3: createInteraction for a LIKE or SAVE row that already exists is
\* answered with Conflict (409) and changes neither rows nor counters.
C3_DuplicateIsConflict ==
    [][\A r \in Reqs :
          (/\ req[r].pc = "ci_existing"
           /\ userInteraction[Key(req[r].userId, req[r].articleId,
                                  req[r].interactionType)] > 0
           /\ req'[r] # req[r])
              => /\ req'[r].pc = "done"
                 /\ req'[r].status = 409
                 /\ UNCHANGED <<article, userInteraction>>]_vars

ViewDeletion(r) ==
    IsCall(r, "deleteInteraction") /\ req[r].interactionType = "VIEW"

\* C4: deleteInteraction(u, a, VIEW) is answered with BadRequest (400) for
\* every user, article and prior state, and no step of such a call changes
\* an interaction row or a counter.
C4_ViewDeletionRejected ==
    /\ [](\A r \in Reqs : ViewDeletion(r) => (Done(r) /\ req[r].status = 400))
    /\ [][\A r \in Reqs :
             ((ViewDeletion(r) \/ ViewDeletion(r)') /\ req'[r] # req[r])
                 => UNCHANGED <<article, userInteraction>>]_vars

\* A VIEW deletion was refused while the VIEW row of that user and article
\* is stored.
C4_Witness ==
    \E r \in Reqs :
        /\ ViewDeletion(r) /\ Done(r) /\ req[r].status = 400
        /\ article[req[r].articleId].exists
        /\ userInteraction[Key(req[r].userId, req[r].articleId, "VIEW")] = 1

\* C5: for every article, viewCount is the number of VIEW rows, after any
\* createInteraction(VIEW) calls and view-count increments.
C5_ViewCounter ==
    \A a \in ArticleIds :
        article[a].exists => article[a].viewCount = CountRows(a, "VIEW")

\* C6: every createInteraction(u, a, VIEW) on an existing article succeeds,
\* repeated ones included, and adds one to viewCount.
C6_ViewRepeatable ==
    [][\A r \in Reqs :
          (/\ req[r].pc = "ci_tx"
           /\ req[r].interactionType = "VIEW"
           /\ article[req[r].articleId].exists
           /\ req'[r] # req[r])
              => /\ req'[r].status = 201
                 /\ article'[req[r].articleId].viewCount =
                        article[req[r].articleId].viewCount + 1]_vars

UrlCount(url) ==
    Cardinality({a \in ArticleIds : article[a].exists /\ article[a].wikipediaUrl = url})

\* s is an upsert that started after the upsert r had answered.
UpsertThenUpsert(r, s) ==
    /\ r # s
    /\ IsCall(r, "upsertFromWikipedia") /\ IsCall(s, "upsertFromWikipedia")
    /\ Done(r) /\ Done(s)
    /\ r \in req[s].after

Idempotent(r, s) ==
    /\ req[s].status = 200
    /\ ~req[s].created
    /\ req[s].result = req[r].result
    /\ UrlCount(req[r].wikipediaUrl) = 1

\* C7 as stated: of two upsertFromWikipedia calls in sequence with the same
\* wikipediaUrl, the first creating, the second answers created = false with
\* the same article id, and one article has that URL.
C7_IdempotentUpsertByUrl ==
    \A r, s \in Reqs :
        (/\ UpsertThenUpsert(r, s)
         /\ req[r].wikipediaUrl = req[s].wikipediaUrl
         /\ req[r].created)
            => Idempotent(r, s)

\* C7 (amended): the same, for two calls with the same wikipediaUrl and the
\* same Wikipedia page id.
C7_IdempotentUpsert ==
    \A r, s \in Reqs :
        (/\ UpsertThenUpsert(r, s)
         /\ req[r].wikipediaUrl = req[s].wikipediaUrl
         /\ req[r].wikipediaId = req[s].wikipediaId
         /\ req[r].created)
            => Idempotent(r, s)

\* The second of two equal upserts in sequence has answered, while another
\* article holds the other URL.
C7_Witness ==
    \E r, s \in Reqs :
        /\ UpsertThenUpsert(r, s)
        /\ req[r].wikipediaUrl = req[s].wikipediaUrl
        /\ req[r].wikipediaId = req[s].wikipediaId
        /\ req[r].created
        /\ \E a \in ArticleIds : article[a].exists /\ a # req[r].result

\* C8: at most one article per wikipediaUrl and at most one per non-null
\* wikipediaId, under any interleaving of upsertFromWikipedia and
\* createArticle calls.
C8_UniqueIdentity ==
    \A a, b \in ArticleIds :
        (a # b /\ article[a].exists /\ article[b].exists) =>
            /\ article[a].wikipediaUrl # article[b].wikipediaUrl
            /\ (article[a].wikipediaId = "null"
                    \/ article[a].wikipediaId # article[b].wikipediaId)

\* Two upserts of one identity both found nothing before either inserted,
\* and both have answered.
RacingUpserts(r, s) ==
    /\ r # s
    /\ IsCall(r, "upsertFromWikipedia") /\ IsCall(s, "upsertFromWikipedia")
    /\ req[r].wikipediaId = req[s].wikipediaId
    /\ req[r].wikipediaUrl = req[s].wikipediaUrl
    /\ s \in req[r].peers
    /\ Done(r) /\ Done(s)

C8_Witness == \E r, s \in Reqs : RacingUpserts(r, s)

\* C9: upserts of one identity that all looked up before any insert all
\* answer with success and the winning article, one created = true and the
\* others created = false; none is answered with a constraint error.
C9_ConcurrentUpsertsSucceed ==
    \A r, s \in Reqs :
        RacingUpserts(r, s) =>
            /\ req[r].status \in {200, 201}
            /\ req[s].status \in {200, 201}
            /\ req[r].result = req[s].result
            /\ req[r].created # req[s].created

InFlight(r) == req[r].pc \notin {"idle", "done"}

\* C10: while two regenerateAudio calls for one article overlap,
\* ttsService.generateAudioSummary is invoked for it by one of them only.
C10_AudioSingleFlight ==
    \A r, s \in Reqs :
        (/\ r # s
         /\ IsCall(r, "regenerateAudio") /\ IsCall(s, "regenerateAudio")
         /\ req[r].articleId = req[s].articleId
         /\ InFlight(r) /\ InFlight(s))
            => ~(req[r].tts /\ req[s].tts)

\* C11: every feed has 0 <= currentPosition <= Len(articleIds), after any
\* createFeed, getMyFeed, updateFeed, updateFeedPosition and regenerateFeed.
C11_PositionInBounds ==
    \A u \in Users :
        feed[u].exists =>
            /\ 0 <= feed[u].currentPosition
            /\ feed[u].currentPosition <= Len(feed[u].articleIds)

\* C12: updateFeedPosition(u, p) on a feed of n articleIds is answered with
\* BadRequest (400) and keeps currentPosition when p > n, and succeeds with
\* currentPosition = n when p = n.
C12_PositionBounds ==
    [][\A r \in Reqs :
          (/\ req[r].pc = "fp_update"
           /\ feed[req[r].userId].exists
           /\ req'[r] # req[r])
              => LET u == req[r].userId
                     p == req[r].data.currentPosition
                     n == Len(feed[u].articleIds)
                 IN /\ p > n => (req'[r].status = 400 /\ feed'[u] = feed[u])
                    /\ p = n => (req'[r].status = 200
                                    /\ feed'[u].currentPosition = n)]_vars

\* The step on which a call of the operation op answers with success.
Returns(r, op) ==
    /\ IsCall(r, op)
    /\ ~Done(r)
    /\ Done(r)'
    /\ req'[r].status \in {200, 201}

\* C13: when regenerateFeed(u, ids) returns successfully, the feed of u has
\* articleIds = ids and currentPosition = 0, whatever the feed was before and
\* whether or not there was one.
C13_RegenerateResets ==
    [][\A r \in Reqs :
          Returns(r, "regenerateFeed") =>
              feed'[req[r].userId] = NewFeed(req[r].data.articleIds)]_vars

\* regenerateFeed has returned for a feed whose cursor was past the start
\* and whose list was another one.
C13_Witness ==
    \E r \in Reqs :
        /\ IsCall(r, "regenerateFeed") /\ Done(r) /\ req[r].status = 200
        /\ req[r].existing = "found"
        /\ req[r].base > 0
        /\ feed[req[r].userId] = NewFeed(req[r].data.articleIds)
        /\ Len(req[r].data.articleIds) > 0

\* C14: getMyFeed(u) always returns a feed: no call is answered with
\* NotFound, Forbidden or a constraint error, racing first accesses included.
C14_GetMyFeedNeverFails ==
    \A r \in Reqs :
        (IsCall(r, "getMyFeed") /\ Done(r)) => req[r].status = 200

\* C15: createFeed(u, ids) for a user who has a feed is answered with
\* Conflict (409) and leaves the feed as it is.
C15_CreateExistingIsConflict ==
    [][\A r \in Reqs :
          (/\ IsCall(r, "createFeed")
           /\ req[r].pc = "cf_find"
           /\ feed[req[r].userId].exists
           /\ req'[r] # req[r])
              => /\ req'[r].pc = "done"
                 /\ req'[r].status = 409
                 /\ UNCHANGED feed]_vars

\* The caller of r is neither the owner of the target feed nor an admin.
Stranger(r) ==
    /\ req[r].op \in {"getFeedByUserId", "updateFeed", "deleteFeed"}
    /\ req[r].userId # req[r].requestingUserId
    /\ ~req[r].isAdmin

\* C16: getFeedByUserId, updateFeed and deleteFeed called by someone who is
\* neither the owner nor an admin are answered with Forbidden (403) before
\* anything is read or written: such a call has no step but its answer, and
\* that step leaves the feeds as they are.
C16_StrangerForbidden ==
    /\ [](\A r \in Reqs : Stranger(r) => (Done(r) /\ req[r].status = 403))
    /\ [][\A r \in Reqs :
             ((Stranger(r) \/ Stranger(r)') /\ req'[r] # req[r])
                 => UNCHANGED feed]_vars

\* Each of the three operations has been refused to a stranger while the
\* target user has a feed.
C16_Witness ==
    \E r, s \in Reqs :
        /\ r # s
        /\ Stranger(r) /\ Stranger(s)
        /\ req[r].op = "deleteFeed" /\ req[s].op \in {"updateFeed", "getFeedByUserId"}
        /\ req[r].status = 403 /\ req[s].status = 403
        /\ feed[req[r].userId].exists /\ feed[req[s].userId].exists

\* r is a call for the LIKE row of one user and article.
LikeCall(r, op) == IsCall(r, op) /\ req[r].interactionType = "LIKE"

RowOf(r) == Key(req[r].userId, req[r].articleId, req[r].interactionType)

\* C17: on one (user, article), createInteraction(LIKE) with no LIKE row
\* passes the duplicate check and commits with likeCount + 1 and the row
\* stored; deleteInteraction(LIKE) of a stored row commits with
\* likeCount - 1 and the row removed; so a create after the delete meets no
\* row and succeeds again.
C17_LikeRoundTrip ==
    [][\A r \in Reqs :
          LET a == req[r].articleId
          IN /\ (/\ LikeCall(r, "createInteraction")
                 /\ req[r].pc = "ci_existing"
                 /\ userInteraction[RowOf(r)] = 0
                 /\ req'[r].pc # req[r].pc)
                    => req'[r].pc = "ci_tx"
             /\ (/\ LikeCall(r, "createInteraction")
                 /\ req[r].pc = "ci_tx"
                 /\ userInteraction[RowOf(r)] = 0
                 /\ article[a].exists
                 /\ req'[r].pc # req[r].pc)
                    => /\ req'[r].status = 201
                       /\ userInteraction'[RowOf(r)] = 1
                       /\ article'[a].likeCount = article[a].likeCount + 1
             /\ (/\ LikeCall(r, "deleteInteraction")
                 /\ req[r].pc = "di_existing"
                 /\ userInteraction[RowOf(r)] = 1
                 /\ req'[r].pc # req[r].pc)
                    => req'[r].pc = "di_tx"
             /\ (/\ LikeCall(r, "deleteInteraction")
                 /\ req[r].pc = "di_tx"
                 /\ userInteraction[RowOf(r)] = 1
                 /\ req'[r].pc # req[r].pc)
                    => /\ req'[r].status = 204
                       /\ userInteraction'[RowOf(r)] = 0
                       /\ article'[a].likeCount = article[a].likeCount - 1]_vars

\* A like was created, then deleted by a call that has answered, then
\* created again by a call that met no row and counted from likeCount = 0.
C17_Witness ==
    \E r, s \in Reqs :
        /\ r # s
        /\ LikeCall(r, "createInteraction") /\ LikeCall(s, "deleteInteraction")
        /\ SameRow(r, s)
        /\ Done(r) /\ req[r].status = 201 /\ req[r].existing = "none"
        /\ Done(s) /\ req[s].status = 204 /\ req[s].base = 1
        /\ req[r].base = 0
        /\ userInteraction[RowOf(r)] = 1
        /\ article[req[r].articleId].likeCount = 1

\* r and s are deleteInteraction calls for one row, and r found the row
\* while s had found it and had not committed yet.
RacingDeletes(r, s) ==
    /\ r # s
    /\ IsCall(r, "deleteInteraction") /\ IsCall(s, "deleteInteraction")
    /\ SameRow(r, s)
    /\ s \in req[r].peers

\* C18: deleteInteraction of a LIKE or SAVE row that does not exist is
\* answered with NotFound (404) and changes nothing; of two deleteInteraction
\* calls that both found the row before either committed, one is answered
\* 204 and the other 404, the row is gone and the counter is one less than
\* it was, and not below 0.
C18_DeleteOnce ==
    /\ [][\A r \in Reqs :
             (/\ IsCall(r, "deleteInteraction")
              /\ req[r].pc \in {"di_existing", "di_tx"}
              /\ userInteraction[RowOf(r)] = 0
              /\ req'[r].pc # req[r].pc)
                 => /\ req'[r].pc = "done"
                    /\ req'[r].status = 404
                    /\ UNCHANGED <<article, userInteraction>>]_vars
    /\ [](\A r, s \in Reqs :
             (RacingDeletes(r, s) /\ Done(r) /\ Done(s)) =>
                 LET a == req[r].articleId
                     k == req[r].interactionType
                 IN /\ {req[r].status, req[s].status} = {204, 404}
                    /\ userInteraction[RowOf(r)] = 0
                    /\ Counter(article[a], k) = req[r].base - 1
                    /\ Counter(article[a], k) >= CountRows(a, k)
                    /\ Counter(article[a], k) >= 0)

C18_Witness ==
    \E r, s \in Reqs : RacingDeletes(r, s) /\ Done(r) /\ Done(s)

BulkDone(r) == IsCall(r, "bulkUpsertFromWikipedia") /\ Done(r)

\* C19: bulkUpsertFromWikipedia(items) goes through every item, an item
\* whose upsert fails is left out of the result and the batch answers all
\* the same, and in the result created + existing = Len(articles) <=
\* Len(items), with created the number of rows this call inserted.
C19_BulkPartialFailure ==
    \A r \in Reqs :
        BulkDone(r) =>
            LET results == req[r].results
            IN /\ req[r].status = 200
               /\ req[r].index = Len(req[r].articles)
               /\ Len(results.articles) + req[r].failed = Len(req[r].articles)
               /\ results.created + results.existing = Len(results.articles)
               /\ Len(results.articles) <= Len(req[r].articles)
               /\ results.created = req[r].inserted

\* A batch has answered after one of its items failed and another one was
\* inserted.
C19_Witness ==
    \E r \in Reqs :
        /\ BulkDone(r)
        /\ req[r].failed > 0
        /\ req[r].results.created > 0
        /\ Len(req[r].articles) > 1

Counters(row) == <<row.viewCount, row.likeCount, row.saveCount>>

\* The step is the transaction of a createInteraction or deleteInteraction
\* call for the article a.
InteractionTransaction(a) ==
    \E r \in Reqs :
        /\ req[r].pc \in {"ci_tx", "di_tx"}
        /\ req[r].articleId = a
        /\ req'[r].pc = "done"

\* C20: viewCount, likeCount and saveCount of an article change in the
\* createInteraction and deleteInteraction transactions only; updateArticle
\* with any body and incrementViewCount leave the three as they are.
C20_CountersFrame ==
    [][\A a \in ArticleIds :
          Counters(article'[a]) # Counters(article[a])
              => InteractionTransaction(a)]_vars

\* ------------------------------------------------------------------ C21
\* C21: every createInteraction(u, a, k) that succeeded is eventually
\* followed by a submission of the matching feedback (like / open_article /
\* save) of u to the recommender.
C21_FeedbackSubmitted ==
    \A u \in Users, k \in InteractionType :
        (\E r \in Reqs : /\ Done(r) /\ IsCall(r, "createInteraction")
                         /\ req[r].status = 201
                         /\ req[r].userId = u /\ req[r].interactionType = k)
        ~> (\E f \in gorse.feedback : f[1] = feedbackTypeMap(k) /\ f[2] = u)

\* ------------------------------------------------------------------ C22
\* C22: whatever the recommender does (disabled, network error, response
\* not OK, unreadable body, success), an upsert that reached the item sync
\* has persisted its article and answers 201 with created = true; the
\* adapter operations never throw, report false unless the recommender
\* accepted the call, and getRecommendations yields the empty list unless
\* the recommender answered.
C22_RecommenderNeverSurfaces ==
    \A r \in Reqs :
        Done(r) /\ req[r].outcome # "-" =>
            /\ ~req[r].threw
            /\ IsCall(r, "upsertFromWikipedia") =>
                  /\ req[r].status = 201 /\ req[r].created
                  /\ req[r].synced = (req[r].outcome = "ok")
                  /\ article[req[r].result].exists
                  /\ article[req[r].result].wikipediaId = req[r].wikipediaId
            /\ req[r].op \in {"insertFeedback", "deleteFeedback"} =>
                  req[r].synced = (req[r].outcome = "ok")
            /\ IsCall(r, "getRecommendations") /\ req[r].outcome # "ok" =>
                  req[r].recommendations = <<>>

\* a creating upsert answered 201 although the call of the recommender met a
\* network error
C22_Witness ==
    \E r \in Reqs :
        /\ Done(r) /\ IsCall(r, "upsertFromWikipedia")
        /\ req[r].outcome = "network_error"
        /\ req[r].status = 201 /\ req[r].created

\* ------------------------------------------------------------------ C25
\* C25: the number of upsertItem calls made for a Wikipedia page id equals
\* the number of articles of that id that upserts created and whose upsert
\* has got past its item sync; an upsert that returns an existing article
\* makes none.
C25_SyncOncePerCreated ==
    \A w \in WikipediaIds :
        gorse.items[w] =
            Cardinality({a \in ArticleIds :
                            article[a].exists /\ article[a].wikipediaId = w})
            - Cardinality({r \in Reqs :
                              req[r].pc = "up_gorse" /\ req[r].wikipediaId = w})

\* an upsert returned the existing article of a page that was synced once
C25_Witness ==
    \E r \in Reqs :
        /\ Done(r) /\ IsCall(r, "upsertFromWikipedia")
        /\ req[r].status = 200 /\ ~req[r].created
        /\ gorse.items[req[r].wikipediaId] = 1

\* ------------------------------------------------------------------ C23
\* a call of op took its last step: the answer is decided
Answers(r, op) ==
    /\ req[r].pc # "done" /\ req'[r].pc = "done" /\ req'[r].op = op

DetachedRunning == {"synth", "upload", "update"}

\* C24: a failure of the detached synthesis (TTS error, upload error, the
\* article deleted meanwhile) ends in the log: the step changes no article
\* and no request, and leaves no unhandled rejection; an article whose
\* synthesis failed has isProcessed = false and a null audioUrl.
C24_DetachedFailureOnlyLogged ==
    /\ [](\A a \in ArticleIds :
             /\ detached[a].pc # "unhandledRejection"
             /\ detached[a].error # "-" /\ article[a].exists =>
                   ~article[a].isProcessed /\ article[a].audioUrl = NullUrl)
    /\ [][\A a \in ArticleIds :
             detached[a].pc \in DetachedRunning
             /\ detached'[a].pc \notin DetachedRunning \cup {"done"}
             => /\ detached'[a].pc = "logged"
                /\ article' = article
                /\ req' = req]_vars

\* the update of the detached call failed because the article had been
\* deleted, and the failure was logged
C24_Witness ==
    \E a \in ArticleIds :
        /\ detached[a] = [pc |-> "logged", error |-> "P2025"]
        /\ article[a].deleted

\* ------------------------------------------------------------------ C27
\* C27: when text generation fails, processAndCreateArticle and
\* regenerateSummary end at once with the error (500): no article row is
\* created or changed, no object is stored and no synthesis is started.
C27_TextFailureSurfaces ==
    [][\A r \in Reqs :
          /\ req[r].pc \in {"pa_summary", "pa_tags", "rs_summary"}
          /\ req'[r].pc # req[r].pc
          /\ req'[r].outcome = "ai_error"
          => /\ req'[r].pc = "done"
             /\ req'[r].status = 500
             /\ req'[r].result = "-" /\ ~req'[r].tts
             /\ article' = article
             /\ detached' = detached
             /\ ttsCalls' = ttsCalls
             /\ cloudinary' = cloudinary]_vars

\* tag generation failed after the summary had been generated, and
\* regenerateSummary failed on an article that keeps its summary
C27_Witness ==
    /\ req["r1"].pc = "done" /\ req["r1"].outcome = "ai_error"
    /\ req["r1"].status = 500
    /\ \/ IsCall("r1", "processAndCreateArticle") /\ req["r1"].summary \in Summaries
       \/ /\ IsCall("r1", "regenerateSummary")
          /\ article[req["r1"].articleId].aiSummary \in Summaries

\* ------------------------------------------------------------------ C28
\* C28: a step of regenerateSummary(id, content) changes at most the
\* aiSummary of article id: every other field of every article, the stored
\* objects, the syntheses started and running are as before; for an id
\* without a row the call answers 404 and has not called text generation.
C28_SummaryOnly ==
    [][\A r \in Reqs :
          IsCall(r, "regenerateSummary") /\ req'[r].pc # req[r].pc /\ InFlight(r)
          => /\ article' = [article EXCEPT ![req[r].articleId].aiSummary =
                                article'[req[r].articleId].aiSummary]
             /\ cloudinary' = cloudinary
             /\ ttsCalls' = ttsCalls
             /\ detached' = detached
             /\ req[r].pc = "rs_get" /\ ~article[req[r].articleId].exists
                => /\ req'[r].pc = "done" /\ req'[r].status = 404
                   /\ ~req'[r].ai]_vars

\* regenerateSummary replaced the summary of an article that has its audio
C28_Witness ==
    /\ Done("r1") /\ IsCall("r1", "regenerateSummary")
    /\ req["r1"].status = 200
    /\ req["r1"].row.audioUrl # NullUrl /\ req["r1"].row.isProcessed
    /\ req["r1"].row.aiSummary = req["r1"].summary

\* ------------------------------------------------------------------ C26
\* C26: a regenerateAudio request does not wait for the synthesis it
\* started: once the synthesis call is made and has produced no audio URL
\* yet, the request has its response.
C26_NotBlockedBySynthesis ==
    \A r \in Reqs :
        IsCall(r, "regenerateAudio") /\ req[r].tts /\ req[r].newAudioUrl = NullUrl
            => Done(r)

\* ------------------------------------------------------------------ C29
\* C29: the audioUrl of an article, when not null, designates an object
\* that is in storage (stated for the states in which no request is in
\* progress, which the claim includes).
C29_AudioUrlDesignatesObject ==
    (\A r \in Reqs : ~InFlight(r)) =>
        \A a \in ArticleIds :
            article[a].exists /\ article[a].audioUrl # NullUrl =>
                PublicIdFromUrl(article[a].audioUrl) \in cloudinary

\* ------------------------------------------------------------------ C30
\* the counters of an article row that do not belong to interaction type k
OtherCounters(row, k) ==
    CASE k = "VIEW" -> <<row.likeCount, row.saveCount>>
      [] k = "LIKE" -> <<row.viewCount, row.saveCount>>
      [] k = "SAVE" -> <<row.viewCount, row.likeCount>>

\* C30: a step of createInteraction(u, a, k) or deleteInteraction(u, a, k),
\* successful or not, leaves every interaction row but (u, a, k), every
\* other article, and the two counters of a that do not belong to k as
\* they were.
C30_InteractionFrame ==
    [][\A r \in Reqs :
          /\ req[r].op \in {"createInteraction", "deleteInteraction"}
          /\ InFlight(r) /\ req'[r].pc # req[r].pc
          => LET u == req[r].userId
                 a == req[r].articleId
                 k == req[r].interactionType
             IN /\ \A key \in Users \X ArticleIds \X InteractionType :
                       key # <<u, a, k>> =>
                           userInteraction'[key] = userInteraction[key]
                /\ \A b \in ArticleIds \ {a} : article'[b] = article[b]
                /\ OtherCounters(article'[a], k) = OtherCounters(article[a], k)]_vars

\* u1 has liked a1 while a1 carries a like of u2 and a save, and a2 a save
C30_Witness ==
    /\ \E r \in Reqs :
          /\ Done(r) /\ IsCall(r, "createInteraction") /\ req[r].status = 201
          /\ req[r].userId = "u1" /\ req[r].articleId = "a1"
          /\ req[r].interactionType = "LIKE"
    /\ article["a1"].likeCount = 2 /\ article["a1"].saveCount = 1
    /\ article["a2"].saveCount = 1
    /\ userInteraction[<<"u2", "a1", "LIKE">>] = 1

====
